---- MODULE Spec2Model ----
(***************************************************************************)
(* A model of zotmd's synchronization engine (core/sync_engine.py) and of  *)
(* the template change detector (core/template_manager.py).                *)
(*                                                                         *)
(* The remote library, the state store, the renderer and the file layer    *)
(* are collaborators whose code is not part of the sources modelled here;  *)
(* they are modelled at their interface.  A run of the engine is a         *)
(* sequence of steps: mode selection, fetch and batch prefetch, one step   *)
(* per reconciled item (the workers of the pool, taken in any order),      *)
(* deletion reconciliation one key at a time, and the final commit.        *)
(*                                                                         *)
(* Spec has the runs without faults, SpecFail the runs in which calls of   *)
(* the collaborators raise, SpecItem one reconciliation on arbitrary       *)
(* inputs, SpecPass the workers of one pass call by call, and SpecResult   *)
(* the threads of the pool on the shared SyncResult.                       *)
(***************************************************************************)
EXTENDS Integers, FiniteSets, Sequences, TLC

\* ------------------------------------------------------------------ bounds
MaxAnn == 1             \* annotations per record
MaxTpl == 2             \* template fingerprints 1..MaxTpl
MaxChanges == 2         \* changes of single records and edits of the template
MaxItemVersion == 2     \* record versions given to a single reconciliation
MaxCalls == 3           \* calls made on one shared SyncResult
MaxTime == 5            \* ticks of the clock
MaxRequests == 3        \* max_requests given to a RateLimiter: 1..MaxRequests
MaxCallers == 2         \* threads calling acquire()
MaxLen == 4             \* characters of a path given to sanitize_path
MaxJobs == 2            \* tasks of the pass followed call by call
MaxItems == 5           \* items fetched for one pass of the pool
MaxAtt == 2              \* attachments in the raw attachment list
MaxNotes == 2            \* annotations in the raw annotation list
MaxText == 2             \* distinct free texts a user may have written
MaxAcquires == 4        \* acquisitions recorded by one RateLimiter

\* --------------------------------------------------------- program constants
FULL_SYNC_GAP == 1000   \* "if current_version - last_version > 1000"
MAX_WORKERS == 4        \* "MAX_WORKERS = 4"

Keys == {"K1", "K2"}        \* external keys
CKeys == {"ck1", "ck2"}     \* citation keys
NoCitationKey == ""         \* no citation key derivable

\* ------------------------------------------------------------------- values
NoLibraryVersion == -1  \* get_last_library_version() returning None
FirstVersion == 1       \* library version when the engine is first run

NoItem == [present |-> FALSE, ckey |-> NoCitationKey, version |-> 0]
NoAnn == [n |-> 0, rev |-> 0]
AnnValues == {a \in [n : 0..MaxAnn, rev : 0..1] : a.n = 0 => a.rev = 0}
NoRow == [status |-> "none", citation_key |-> NoCitationKey, zotero_version |-> 0,
          item_json |-> NoItem]
NoFile == [exists |-> FALSE, markers |-> 0, annotations |-> NoAnn,
           version |-> 0, template |-> 0]
NoTemplateVersion == [template_hash |-> 0, template_path |-> "none"]
NoBefore == [sync_items |-> [k \in Keys |-> NoRow],
             files |-> [c \in CKeys |-> NoFile],
             last_library_version |-> NoLibraryVersion,
             template_version |-> NoTemplateVersion]

VARIABLES
    \* the remote library
    library_version,        \* current library version
    remote_items,           \* key -> record (present, citation key, version)
    remote_annotations,     \* key -> annotations of the record's attachments
    remote_deleted,         \* key -> version at which it was deleted, 0: not
    \* the renderer's active template
    template,               \* [template_hash, template_path]
    \* the State Store
    sync_items,             \* key -> Item State row
    last_library_version,   \* recorded library version or NoLibraryVersion
    template_version,       \* recorded Template Version or NoTemplateVersion
    \* the file store
    files,                  \* citation key -> artifact
    \* the run in progress (or the last one, while pc = "done")
    pc,                     \* "idle", "fetch", "items", "deletions", "done",
                            \* "raised": the run ended with an exception
    entry,                  \* "none", "full", "incremental": operation called
    rule,                   \* decision-table rule taken, 0 for a direct Full Sync
    mode,                   \* "none", "full", "noop", "delta", "rerender"
    prev_rule,              \* rule of the run that returned right before this one, -1: none
    prev_equal,             \* that run read a library version equal to the recorded one
    last_version,           \* local last_version
    current_version,        \* local current_version
    template_changed,       \* local template_changed
    current_hash,           \* local current_hash/current_path of the re-render
    items,                  \* fetched records
    batch_data,             \* annotations_by_item
    force_rerender,         \* the flag given to the workers
    pending,                \* submitted tasks that have not run
    removed_keys,           \* keys still to reconcile as deletions
    removed_count,          \* local removed_count of _handle_removed_items
    result,                 \* the run's SyncResult
    calls,                  \* collaborator read operations invoked in this run
    rendered,               \* keys given to render_item in this run
    handled,                \* key -> handle_removed_item calls in this run
    marked,                 \* key -> mark_item_removed calls in this run
    before,                 \* store and artifacts when the run began
    failed,                 \* keys whose task raised in this run
    \* faults injected so far
    faults,
    \* the SyncResult shared by the threads of a pool
    lock,                   \* _lock: 0 when free, else the thread holding it
    threads,                \* thread -> the SyncResult method it is executing
    tally,                  \* calls that have returned, by method
    \* the workers of a pass, step by step
    tasks,                  \* key -> position and locals of its task
    \* the RateLimiter and the threads calling acquire()
    clock,                  \* time.time(), in ticks
    max_requests,           \* self.max_requests: the effective capacity
    requests,               \* self.requests: the timestamp queue
    limiter_lock,           \* self._lock: 0 when free, else the caller in it
    callers,                \* caller -> position and locals in acquire()
    granted,                \* time -> acquisitions recorded at that time
    \* one invocation of the command line
    config_file,            \* the configuration file: none, broken or good
    connection,             \* whether test_connection() succeeds
    db_file,                \* the State Store file: none, broken or good
    sync_outcome,           \* what the engine's sync method does
    command,                \* the command invoked and its flags
    cli_pc,                 \* position in the command
    output,                 \* the messages printed so far
    exit_code,              \* exit status of the process, NoExit while running
    engine_created,         \* create_sync_engine() was called
    sync_called,            \* the sync method called on the engine
    connection_tested,      \* test_connection() was called
    store_opened,           \* StateManager(db_path) was constructed
    \* one call of sanitize_path
    path_str,               \* the argument
    sanitized,              \* the value returned
    \* the workers of one pass and the store lock
    db_lock,                \* _db_lock: 0 when free, else the job holding it
    jobs,                   \* job -> its record's key, position and locals
    \* the main thread and the executor of one pass
    main,                   \* position of the main thread
    futures,                \* item -> state of its future
    yielded,                \* futures that as_completed has yielded
    pool_threads,           \* worker thread -> the item it is running, or 0
    starts,                 \* item -> times its reconciliation was started
    pool_result,            \* the SyncResult of the pass
    \* one call of _build_batch_data
    all_attachments,        \* the raw attachment list
    all_annotations,        \* the raw annotation list
    built,                  \* _build_batch_data has returned
    attachment_keys,        \* BatchData.attachment_keys: parent -> attachment
    annotations_by_item,    \* BatchData.annotations_by_item: parent -> list
    \* one reconciliation, with the free text of the artifacts
    recon,                  \* its inputs: mode, row, record, annotations, artifacts
    rendering               \* what it did: outcome, preserved notes, artifact

remote == <<library_version, remote_items, remote_annotations, remote_deleted>>
store == <<sync_items, last_library_version, template_version>>
run == <<pc, entry, rule, mode, prev_rule, prev_equal, last_version,
         current_version, template_changed, current_hash, items, batch_data,
         force_rerender, pending, removed_keys, removed_count, result, calls,
         rendered, handled, marked, before, failed>>
shared == <<lock, threads, tally, tasks>>
limiter == <<clock, max_requests, requests, limiter_lock, callers, granted>>
cli == <<config_file, connection, db_file, sync_outcome, command, cli_pc, output,
         exit_code, engine_created, sync_called, connection_tested, store_opened>>
sanitizer == <<path_str, sanitized>>
db == <<db_lock, jobs>>
pool == <<main, futures, yielded, pool_threads, starts, pool_result>>
batch == <<all_attachments, all_annotations, built, attachment_keys,
           annotations_by_item>>
notes == <<recon, rendering>>
aside == <<limiter, cli, sanitizer, db, pool, batch, notes>>
not_limiter == <<cli, sanitizer, db, pool, batch, notes>>
not_cli == <<limiter, sanitizer, db, pool, batch, notes>>
not_sanitizer == <<limiter, cli, db, pool, batch, notes>>
not_db == <<limiter, cli, sanitizer, pool, batch, notes>>
not_pool == <<limiter, cli, sanitizer, db, batch, notes>>
not_batch == <<limiter, cli, sanitizer, db, pool, notes>>
not_notes == <<limiter, cli, sanitizer, db, pool, batch>>
engine == <<remote, template, store, files, run, faults, shared>>
vars == <<engine, aside>>

\* ------------------------------------------------------------- SyncResult
NewSyncResult ==
    [total_items_processed |-> 0, items_created |-> 0, items_updated |-> 0,
     items_removed |-> 0, items_skipped |-> 0, annotations_synced |-> 0,
     errors |-> <<>>]

increment_processed(r) ==
    [r EXCEPT !.total_items_processed = @ + 1]
increment_created(r) ==
    [r EXCEPT !.items_created = @ + 1]
increment_updated(r) ==
    [r EXCEPT !.items_updated = @ + 1]
increment_skipped(r) ==
    [r EXCEPT !.items_skipped = @ + 1]
add_annotations(r, count) ==
    [r EXCEPT !.annotations_synced = @ + count]
add_error(r, error) ==
    [r EXCEPT !.errors = Append(@, error)]

\* the threads that share one SyncResult: the workers of the pool
Threads == 1..MAX_WORKERS
NoCall == [at |-> "out", method |-> "none", amount |-> 0, tmp |-> 0]
\* RateLimiter.__init__: int(max_requests * safety_margin), the margin
\* given as the fraction num/den
effective_capacity(max, num, den) ==
    (max * num) \div den

Callers == 1..MaxCallers
NoAcquire == [at |-> "out", now |-> 0, window_start |-> 0, wake |-> 0]
NewTask == [at |-> "new", existing_state |-> NoRow, existing_content |-> NoFile]
NewTally ==
    [total_items_processed |-> 0, items_created |-> 0, items_updated |-> 0,
     items_skipped |-> 0, annotations_synced |-> 0, errors |-> {}, calls |-> 0]

\* ---------------------------------------------------------- collaborators
\* ZoteroItem.from_api_response: None when no citation key can be derived
HasCitationKey(item_data) ==
    item_data.ckey \in CKeys

\* ZoteroClient
get_all_items ==
    remote_items
get_items_since_version(since) ==
    [k \in Keys |-> IF remote_items[k].present /\ remote_items[k].version > since
                    THEN remote_items[k] ELSE NoItem]
get_deleted_items(since) ==
    {k \in Keys : remote_deleted[k] > since}

\* StateManager
get_item_state(k) ==
    sync_items[k]
get_all_item_keys ==
    {k \in Keys : sync_items[k].status = "active"}
get_active_items ==
    {k \in Keys : sync_items[k].status = "active"}

\* TemplateRenderer: one annotation marker is written per annotation
render_item(item, annotations) ==
    [exists |-> TRUE, markers |-> annotations.n, annotations |-> annotations,
     version |-> item.version, template |-> template.template_hash]
\* existing_annotations.count("- <mark class=") on the annotations section
count_markers(content) ==
    content.markers

\* FileManager
read_existing(ck) ==
    files[ck]

\* ------------------------------------------------- TemplateChangeDetector
\* mutant: only the fingerprints are compared
has_template_changed_hash_only(hash, path, stored_version) ==
    IF stored_version = NoTemplateVersion THEN FALSE
    ELSE stored_version.template_hash # hash

has_template_changed(hash, path, stored_version) ==
    IF stored_version = NoTemplateVersion THEN FALSE
    ELSE IF stored_version.template_hash # hash THEN TRUE
    ELSE IF stored_version.template_path # path THEN TRUE
    ELSE FALSE

\* --------------------------------------------------------------- BatchData
build_batch_data ==
    [k \in Keys |-> remote_annotations[k]]


\* ------------------------------------------------------------------- Init
RunIdle ==
    /\ pc = "idle"
    /\ entry = "none"
    /\ rule = 0
    /\ mode = "none"
    /\ prev_rule = -1
    /\ prev_equal = FALSE
    /\ last_version = NoLibraryVersion
    /\ current_version = 0
    /\ template_changed = FALSE
    /\ current_hash = NoTemplateVersion
    /\ items = [k \in Keys |-> NoItem]
    /\ batch_data = [k \in Keys |-> NoAnn]
    /\ force_rerender = FALSE
    /\ pending = {}
    /\ removed_keys = {}
    /\ removed_count = 0
    /\ result = NewSyncResult
    /\ calls = {}
    /\ rendered = {}
    /\ handled = [k \in Keys |-> 0]
    /\ marked = [k \in Keys |-> 0]
    /\ before = NoBefore
    /\ failed = {}

\* RateLimiter(max_requests=max) with the default margin 0.8, at time 0
LimiterNew(max) ==
    /\ clock = 0
    /\ max_requests = effective_capacity(max, 8, 10)
    /\ requests = <<>>
    /\ limiter_lock = 0
    /\ callers = [c \in Callers |-> NoAcquire]
    /\ granted = [t \in 0..MaxTime |-> 0]

\* no command has been invoked
NoExit == -1
NoCommand == [name |-> "none", full |-> FALSE, no_progress |-> FALSE]
CliIdle ==
    /\ config_file = "none"
    /\ connection = FALSE
    /\ db_file = "none"
    /\ sync_outcome = "ok"
    /\ command = NoCommand
    /\ cli_pc = "shell"
    /\ output = <<>>
    /\ exit_code = NoExit
    /\ engine_created = FALSE
    /\ sync_called = "none"
    /\ connection_tested = FALSE
    /\ store_opened = FALSE

\* sanitize_path has not been called
NotReturned == [returned |-> FALSE, value |-> <<>>]
SanitizerIdle ==
    /\ path_str = <<>>
    /\ sanitized = NotReturned

\* no pass is running
Jobs == 1..MaxJobs
NoKey == "none"
NoJob == [key |-> NoKey, at |-> "none", item_data |-> NoItem,
          existing_state |-> NoRow, is_update |-> FALSE]
DbIdle ==
    /\ db_lock = 0
    /\ jobs = [j \in Jobs |-> NoJob]

\* no pool has been created
ItemIds == 1..MaxItems
\* mutant: the executor has one thread more
PoolWorkers_one_more == 1..(MAX_WORKERS + 1)
PoolWorkers == 1..MAX_WORKERS
NewPoolResult ==
    [total_items_processed |-> 0, items_created |-> 0, items_skipped |-> 0,
     errors |-> {}]
PoolIdle ==
    /\ main = "idle"
    /\ futures = [i \in ItemIds |-> "none"]
    /\ yielded = {}
    /\ pool_threads = [w \in PoolWorkers |-> 0]
    /\ starts = [i \in ItemIds |-> 0]
    /\ pool_result = NewPoolResult

\* _build_batch_data has not been called
EmptyDict == [k \in {} |-> 0]
BatchIdle ==
    /\ all_attachments = <<>>
    /\ all_annotations = <<>>
    /\ built = FALSE
    /\ attachment_keys = EmptyDict
    /\ annotations_by_item = EmptyDict

\* no reconciliation is followed
NoNotes == 0            \* extract_notes_section returning None
NoArtifact == [exists |-> FALSE, markers |-> 0, notes |-> NoNotes]
NotRendered ==
    [at |-> "new", outcome |-> "none", rendered |-> FALSE,
     preserved_notes |-> NoNotes, citation_key |-> NoCitationKey,
     artifact |-> NoArtifact]
NotesIdle ==
    /\ recon = [mode |-> "none", existing_state |-> NoRow, item_data |-> NoItem,
                annotations |-> NoAnn, artifacts |-> [c \in CKeys |-> NoArtifact]]
    /\ rendering = NotRendered

AsideIdle ==
    /\ LimiterNew(MaxRequests)
    /\ CliIdle
    /\ SanitizerIdle
    /\ DbIdle
    /\ PoolIdle
    /\ BatchIdle
    /\ NotesIdle

\* no thread is inside a method of a SyncResult
SharedIdle ==
    /\ lock = 0
    /\ threads = [t \in Threads |-> NoCall]
    /\ tally = NewTally
    /\ tasks = [k \in Keys |-> NewTask]

\* The store and the output directory are new; the library is empty or
\* already holds a record.
Init ==
    /\ library_version = FirstVersion
    /\ remote_items \in
         {[k \in Keys |-> NoItem],
          [k \in Keys |-> IF k = "K1"
                          THEN [present |-> TRUE, ckey |-> "ck1",
                                version |-> FirstVersion]
                          ELSE NoItem]}
    /\ remote_annotations = [k \in Keys |-> NoAnn]
    /\ remote_deleted = [k \in Keys |-> 0]
    /\ template = [template_hash |-> 1, template_path |-> "built-in"]
    /\ sync_items = [k \in Keys |-> NoRow]
    /\ last_library_version = NoLibraryVersion
    /\ template_version = NoTemplateVersion
    /\ files = [c \in CKeys |-> NoFile]
    /\ RunIdle
    /\ faults = 0
    /\ SharedIdle
    /\ AsideIdle

\* the engine is not running: an empty library, a new store
EngineIdle ==
    /\ library_version = FirstVersion
    /\ remote_items = [k \in Keys |-> NoItem]
    /\ remote_annotations = [k \in Keys |-> NoAnn]
    /\ remote_deleted = [k \in Keys |-> 0]
    /\ template = [template_hash |-> 1, template_path |-> "built-in"]
    /\ sync_items = [k \in Keys |-> NoRow]
    /\ last_library_version = NoLibraryVersion
    /\ template_version = NoTemplateVersion
    /\ files = [c \in CKeys |-> NoFile]
    /\ RunIdle
    /\ faults = 0
    /\ SharedIdle

\* ------------------------------------------------------- the environment
\* Between two runs the last SyncResult and BatchData are discarded.
ForgetRun ==
    /\ pc \in {"idle", "done", "raised"}
    /\ pc' = "idle"
    /\ entry' = "none"
    /\ rule' = 0
    /\ mode' = "none"
    /\ prev_rule' = -1
    /\ prev_equal' = FALSE
    /\ last_version' = NoLibraryVersion
    /\ current_version' = 0
    /\ template_changed' = FALSE
    /\ current_hash' = NoTemplateVersion
    /\ items' = [k \in Keys |-> NoItem]
    /\ batch_data' = [k \in Keys |-> NoAnn]
    /\ force_rerender' = FALSE
    /\ pending' = {}
    /\ removed_keys' = {}
    /\ removed_count' = 0
    /\ result' = NewSyncResult
    /\ calls' = {}
    /\ rendered' = {}
    /\ handled' = [k \in Keys |-> 0]
    /\ marked' = [k \in Keys |-> 0]
    /\ before' = NoBefore
    /\ failed' = {}
    /\ UNCHANGED <<faults, shared, aside>>

\* The library version advances by one with every change of a record, and
\* at most once by a large step; changes of records, edits of the template
\* and injected faults are counted together.
CanChange ==
    (library_version % FULL_SYNC_GAP) + (template.template_hash - 1) + faults
        < FirstVersion + MaxChanges

\* A record is created or modified (its citation key may change or vanish).
RemoteModify(k, ck) ==
    /\ ForgetRun
    /\ CanChange
    /\ library_version' = library_version + 1
    /\ remote_items' = [remote_items EXCEPT
                          ![k] = [present |-> TRUE, ckey |-> ck,
                                  version |-> library_version + 1]]
    /\ remote_deleted' = [remote_deleted EXCEPT ![k] = 0]
    /\ UNCHANGED <<remote_annotations, template, store, files>>

\* An annotation of one of the record's attachments is added, removed or
\* edited: the library version advances, the record's own version does not.
RemoteAnnotate(k, a) ==
    /\ ForgetRun
    /\ remote_items[k].present
    /\ a # remote_annotations[k]
    /\ CanChange
    /\ library_version' = library_version + 1
    /\ remote_annotations' = [remote_annotations EXCEPT ![k] = a]
    /\ UNCHANGED <<remote_items, remote_deleted, template, store, files>>

\* A record is deleted with its attachments and annotations.
RemoteDelete(k) ==
    /\ ForgetRun
    /\ remote_items[k].present
    /\ CanChange
    /\ library_version' = library_version + 1
    /\ remote_items' = [remote_items EXCEPT ![k] = NoItem]
    /\ remote_annotations' = [remote_annotations EXCEPT ![k] = NoAnn]
    /\ remote_deleted' = [remote_deleted EXCEPT ![k] = library_version + 1]
    /\ UNCHANGED <<template, store, files>>

\* Objects of the library that are no records of interest change.
RemoteBump(d) ==
    /\ ForgetRun
    /\ library_version < FULL_SYNC_GAP
    /\ library_version' = library_version + d
    /\ UNCHANGED <<remote_items, remote_annotations, remote_deleted, template,
                   store, files>>

\* The user replaces the template by an edited custom one.
TemplateChange(t) ==
    /\ ForgetRun
    /\ t.template_hash = template.template_hash + 1
    /\ CanChange
    /\ template' = t
    /\ UNCHANGED <<remote, store, files>>

\* ------------------------------------------------------ mode selection
\* mutant: the gap test is ">= 1000"
incremental_rule_ge(last, cur, changed) ==
    IF last = NoLibraryVersion THEN 1
    ELSE IF changed THEN 2
    ELSE IF cur = last THEN 3
    ELSE IF cur - last >= FULL_SYNC_GAP THEN 4
    ELSE 5

\* mutant: a missing recorded version is not tested for
incremental_rule_no_none_test(last, cur, changed) ==
    IF changed THEN 2
    ELSE IF cur = last THEN 3
    ELSE IF cur - last > FULL_SYNC_GAP THEN 4
    ELSE 5

\* mutant: an equal version is not tested for
incremental_rule_no_equal_test(last, cur, changed) ==
    IF last = NoLibraryVersion THEN 1
    ELSE IF changed THEN 2
    ELSE IF cur - last > FULL_SYNC_GAP THEN 4
    ELSE 5

\* mutant: the version tests come before the template test
incremental_rule_template_last(last, cur, changed) ==
    IF last = NoLibraryVersion THEN 1
    ELSE IF cur = last THEN 3
    ELSE IF cur - last > FULL_SYNC_GAP THEN 4
    ELSE IF changed THEN 2
    ELSE 5

\* incremental_sync's decision table, as the code's chain of tests
incremental_rule(last, cur, changed) ==
    IF last = NoLibraryVersion THEN 1
    ELSE IF changed THEN 2
    ELSE IF cur = last THEN 3
    ELSE IF cur - last > FULL_SYNC_GAP THEN 4
    ELSE 5

rule_mode(r) ==
    CASE r \in {0, 1, 4} -> "full"
      [] r = 2 -> "rerender"
      [] r = 3 -> "noop"
      [] r = 5 -> "delta"

\* reads made while the table is evaluated down to rule r
rule_calls(r) ==
    IF r = 0 THEN {"get_library_version"}
    ELSE IF r = 1 THEN {"get_last_library_version", "get_library_version"}
    ELSE {"get_last_library_version", "get_library_version",
          "get_template_version", "has_template_changed"}

\* mutant: Full Sync submits its items without the force flag
force_rerender_never(m) ==
    FALSE

\* "force_rerender=True" of Full Sync's submit; the delta leaves the default
force_rerender_for(m) ==
    m = "full"

BeginRun(e, r, changed) ==
    /\ pc \in {"idle", "done", "raised"}
    /\ entry' = e
    /\ rule' = r
    /\ mode' = rule_mode(r)
    /\ prev_rule' = IF pc = "done" THEN rule ELSE -1
    /\ prev_equal' = (pc = "done" /\ current_version = last_version)
    /\ last_version' = IF e = "incremental" THEN last_library_version
                       ELSE NoLibraryVersion
    /\ current_version' = library_version
    /\ template_changed' = (r >= 2 /\ changed)
    /\ current_hash' = IF r = 2 THEN template ELSE NoTemplateVersion
    /\ calls' = rule_calls(r)
    /\ force_rerender' = force_rerender_for(rule_mode(r))
    /\ pc' = IF r = 3 THEN "done" ELSE "fetch"
    /\ result' = NewSyncResult
    /\ items' = [k \in Keys |-> NoItem]
    /\ batch_data' = [k \in Keys |-> NoAnn]
    /\ pending' = {}
    /\ removed_keys' = {}
    /\ removed_count' = 0
    /\ rendered' = {}
    /\ handled' = [k \in Keys |-> 0]
    /\ marked' = [k \in Keys |-> 0]
    /\ before' = [sync_items |-> sync_items, files |-> files,
                   last_library_version |-> last_library_version,
                   template_version |-> template_version]
    /\ failed' = {}
    /\ UNCHANGED <<aside, remote, template, shared, faults, store, files>>

full_sync ==
    BeginRun("full", 0, FALSE)

incremental_sync ==
    LET changed == has_template_changed(template.template_hash,
                                        template.template_path,
                                        template_version)
    IN BeginRun("incremental",
                incremental_rule(last_library_version, library_version, changed),
                changed)

\* ------------------------------------------------- fetch and batch prefetch
fetch_calls(m) ==
    (IF m = "full" THEN {"get_all_items"}
     ELSE IF m = "delta" THEN {"get_items_since_version"}
     ELSE {"get_active_items"})
    \cup {"get_all_annotations", "get_all_attachments"}

\* mutant: the delta fetches the whole item set
fetch_delta_all ==
    /\ pc = "fetch"
    /\ items' = IF mode \in {"full", "delta"} THEN get_all_items
                ELSE [k \in Keys |-> NoItem]
    /\ batch_data' = build_batch_data
    /\ pending' = IF mode = "rerender" THEN get_active_items
                  ELSE {k \in Keys : items'[k].present}
    /\ calls' = calls \cup fetch_calls(mode)
    /\ pc' = "items"
    /\ UNCHANGED <<aside, remote, template, shared, faults, failed, store, files, entry, rule, mode,
                   prev_rule, prev_equal, last_version, current_version,
                   template_changed, current_hash, force_rerender, removed_keys, removed_count,
                   result, rendered, handled, marked, before>>

fetch ==
    /\ pc = "fetch"
    /\ items' = IF mode = "full" THEN get_all_items
                ELSE IF mode = "delta" THEN get_items_since_version(last_version)
                ELSE [k \in Keys |-> NoItem]
    /\ batch_data' = build_batch_data
    /\ pending' = IF mode = "rerender" THEN get_active_items
                  ELSE {k \in Keys : items'[k].present}
    /\ calls' = calls \cup fetch_calls(mode)
    /\ pc' = "items"
    /\ UNCHANGED <<aside, remote, template, shared, faults, failed, store, files, entry, rule, mode,
                   prev_rule, prev_equal, last_version, current_version,
                   template_changed, current_hash, force_rerender, removed_keys, removed_count,
                   result, rendered, handled, marked, before>>

\* ------------------------------------------------ per-item reconciliation
\* mutant: the version test admits an equal version
item_version_changed_le(existing_state, item) ==
    existing_state.zotero_version <= item.version

\* "existing_state.zotero_version < item.version"
item_version_changed(existing_state, item) ==
    existing_state.zotero_version < item.version

\* mutant: the annotations are compared, not counted
annotations_changed_by_content(existing_content, annotations) ==
    IF existing_content.exists
    THEN existing_content.annotations # annotations
    ELSE annotations.n > 0

\* mutant: an artifact that cannot be read counts as a change
annotations_changed_when_missing(existing_content, annotations) ==
    IF existing_content.exists
    THEN count_markers(existing_content) # annotations.n
    ELSE TRUE

\* the count heuristic on the artifact read by the incoming citation key
annotations_changed(existing_content, annotations) ==
    IF existing_content.exists
    THEN count_markers(existing_content) # annotations.n
    ELSE annotations.n > 0

\* mutant: the force flag is not consulted
unchanged_skip_ignores_force(existing_state, item, existing_content, annotations, force) ==
    /\ existing_state.status # "none"
    /\ ~item_version_changed(existing_state, item)
    /\ ~annotations_changed(existing_content, annotations)

\* "if not force_rerender and not item_version_changed and not
\* annotations_changed: return", taken only when a state row exists
unchanged_skip(existing_state, item, existing_content, annotations, force) ==
    /\ existing_state.status # "none"
    /\ ~force
    /\ ~item_version_changed(existing_state, item)
    /\ ~annotations_changed(existing_content, annotations)

\* mutant: the upsert stores no copy of the raw payload
sync_single_item_batch_no_payload(k, item_data, annotations, force, res) ==
    LET r1 == increment_processed(res) IN
    IF ~HasCitationKey(item_data)
    THEN /\ result' = increment_skipped(r1)
         /\ UNCHANGED <<sync_items, files, rendered>>
    ELSE
      LET existing_state == get_item_state(k)
          r2 == add_annotations(r1, annotations.n)
          is_update == existing_state.status # "none"
          existing_content == read_existing(item_data.ckey)
      IN IF unchanged_skip(existing_state, item_data, existing_content,
                           annotations, force)
         THEN /\ result' = r2
              /\ UNCHANGED <<sync_items, files, rendered>>
         ELSE /\ rendered' = rendered \cup {k}
              /\ files' = [files EXCEPT
                             ![item_data.ckey] = render_item(item_data, annotations)]
              /\ sync_items' = [sync_items EXCEPT
                                  ![k] = [status |-> "active",
                                          citation_key |-> item_data.ckey,
                                          zotero_version |-> item_data.version,
                                          item_json |-> NoItem]]
              /\ result' = IF is_update THEN increment_updated(r2)
                           ELSE increment_created(r2)

\* mutant: only an active row makes the reconciliation an update
sync_single_item_batch_removed_is_new(k, item_data, annotations, force, res) ==
    LET r1 == increment_processed(res) IN
    IF ~HasCitationKey(item_data)
    THEN /\ result' = increment_skipped(r1)
         /\ UNCHANGED <<sync_items, files, rendered>>
    ELSE
      LET existing_state == get_item_state(k)
          r2 == add_annotations(r1, annotations.n)
          is_update == existing_state.status = "active"
          existing_content == read_existing(item_data.ckey)
      IN IF unchanged_skip(existing_state, item_data, existing_content,
                           annotations, force)
         THEN /\ result' = r2
              /\ UNCHANGED <<sync_items, files, rendered>>
         ELSE /\ rendered' = rendered \cup {k}
              /\ files' = [files EXCEPT
                             ![item_data.ckey] = render_item(item_data, annotations)]
              /\ sync_items' = [sync_items EXCEPT
                                  ![k] = [status |-> "active",
                                          citation_key |-> item_data.ckey,
                                          zotero_version |-> item_data.version,
                                          item_json |-> item_data]]
              /\ result' = IF is_update THEN increment_updated(r2)
                           ELSE increment_created(r2)

sync_single_item_batch(k, item_data, annotations, force, res) ==
    LET r1 == increment_processed(res) IN
    IF ~HasCitationKey(item_data)
    THEN /\ result' = increment_skipped(r1)
         /\ UNCHANGED <<sync_items, files, rendered>>
    ELSE
      LET existing_state == get_item_state(k)
          r2 == add_annotations(r1, annotations.n)
          is_update == existing_state.status # "none"
          existing_content == read_existing(item_data.ckey)
      IN IF unchanged_skip(existing_state, item_data, existing_content,
                           annotations, force)
         THEN /\ result' = r2
              /\ UNCHANGED <<sync_items, files, rendered>>
         ELSE /\ rendered' = rendered \cup {k}
              /\ files' = [files EXCEPT
                             ![item_data.ckey] = render_item(item_data, annotations)]
              /\ sync_items' = [sync_items EXCEPT
                                  ![k] = [status |-> "active",
                                          citation_key |-> item_data.ckey,
                                          zotero_version |-> item_data.version,
                                          item_json |-> item_data]]
              /\ result' = IF is_update THEN increment_updated(r2)
                           ELSE increment_created(r2)

sync_item(k) ==
    /\ pc = "items"
    /\ mode \in {"full", "delta"}
    /\ k \in pending
    /\ sync_single_item_batch(k, items[k], batch_data[k], force_rerender, result)
    /\ pending' = pending \ {k}
    /\ UNCHANGED <<aside, remote, template, shared, faults, failed, last_library_version, template_version,
                   pc, entry, rule, mode, prev_rule, prev_equal, last_version,
                   current_version, template_changed, current_hash, items, batch_data,
                   force_rerender, removed_keys, removed_count, calls,
                   handled, marked, before>>

\* mutant: the re-render's upsert does not carry the stored version over
rerender_single_item_drops_version(k, item_state, annotations, res) ==
    LET cached == item_state.item_json.present
        item_data == IF cached THEN item_state.item_json ELSE remote_items[k]
    IN
    IF ~cached /\ ~remote_items[k].present
    THEN /\ result' = add_error(res, k)
         /\ calls' = calls \cup {"item"}
         /\ UNCHANGED <<sync_items, files, rendered>>
    ELSE IF ~HasCitationKey(item_data)
    THEN /\ result' = res
         /\ calls' = IF cached THEN calls ELSE calls \cup {"item"}
         /\ UNCHANGED <<sync_items, files, rendered>>
    ELSE /\ calls' = IF cached THEN calls ELSE calls \cup {"item"}
         /\ rendered' = rendered \cup {k}
         /\ files' = [files EXCEPT
                        ![item_state.citation_key] = render_item(item_data, annotations)]
         /\ sync_items' = [sync_items EXCEPT
                             ![k] = [status |-> item_state.status,
                                     citation_key |-> item_state.citation_key,
                                     zotero_version |-> 0,
                                     item_json |-> item_data]]
         /\ result' = increment_updated(res)

\* Full Re-render of one active row from its cached payload
rerender_single_item(k, item_state, annotations, res) ==
    LET cached == item_state.item_json.present
        item_data == IF cached THEN item_state.item_json ELSE remote_items[k]
    IN
    IF ~cached /\ ~remote_items[k].present
    THEN /\ result' = add_error(res, k)
         /\ calls' = calls \cup {"item"}
         /\ UNCHANGED <<sync_items, files, rendered>>
    ELSE IF ~HasCitationKey(item_data)
    THEN /\ result' = res
         /\ calls' = IF cached THEN calls ELSE calls \cup {"item"}
         /\ UNCHANGED <<sync_items, files, rendered>>
    ELSE /\ calls' = IF cached THEN calls ELSE calls \cup {"item"}
         /\ rendered' = rendered \cup {k}
         /\ files' = [files EXCEPT
                        ![item_state.citation_key] = render_item(item_data, annotations)]
         /\ sync_items' = [sync_items EXCEPT
                             ![k] = [status |-> item_state.status,
                                     citation_key |-> item_state.citation_key,
                                     zotero_version |-> item_state.zotero_version,
                                     item_json |-> item_data]]
         /\ result' = increment_updated(res)

rerender_item(k) ==
    /\ pc = "items"
    /\ mode = "rerender"
    /\ k \in pending
    /\ rerender_single_item(k, sync_items[k], batch_data[k], result)
    /\ pending' = pending \ {k}
    /\ UNCHANGED <<aside, remote, template, shared, faults, failed, last_library_version, template_version,
                   pc, entry, rule, mode, prev_rule, prev_equal, last_version,
                   current_version, template_changed, current_hash, items, batch_data,
                   force_rerender, removed_keys, removed_count, handled,
                   marked, before>>

\* ------------------------------------------------ deletion reconciliation
\* mutant: every tracked key is taken as removed
handle_removed_items_all_tracked ==
    /\ pc = "items"
    /\ mode = "full"
    /\ pending = {}
    /\ removed_keys' = get_all_item_keys
    /\ pc' = "deletions"
    /\ UNCHANGED <<aside, remote, template, shared, faults, failed, store, files, entry, rule, mode,
                   prev_rule, prev_equal, last_version, current_version,
                   template_changed, current_hash, items, batch_data, force_rerender, pending,
                   removed_count, result, calls, rendered, handled, marked,
                   before>>

\* _handle_removed_items, up to its loop: the keys tracked and gone
handle_removed_items ==
    /\ pc = "items"
    /\ mode = "full"
    /\ pending = {}
    /\ removed_keys' = get_all_item_keys \ {k \in Keys : get_all_items[k].present}
    /\ pc' = "deletions"
    /\ UNCHANGED <<aside, remote, template, shared, faults, failed, store, files, entry, rule, mode,
                   prev_rule, prev_equal, last_version, current_version,
                   template_changed, current_hash, items, batch_data, force_rerender, pending,
                   removed_count, result, calls, rendered, handled, marked,
                   before>>

\* the delta's deleted keys
get_deleted ==
    /\ pc = "items"
    /\ mode = "delta"
    /\ pending = {}
    /\ removed_keys' = get_deleted_items(last_version)
    /\ calls' = calls \cup {"get_deleted_items"}
    /\ pc' = "deletions"
    /\ UNCHANGED <<aside, remote, template, shared, faults, failed, store, files, entry, rule, mode,
                   prev_rule, prev_equal, last_version, current_version,
                   template_changed, current_hash, items, batch_data, force_rerender, pending,
                   removed_count, result, rendered, handled, marked, before>>

\* mutant: the row is deleted from the store
handle_deleted_item_hard_delete(k) ==
    /\ pc = "deletions"
    /\ k \in removed_keys
    /\ removed_keys' = removed_keys \ {k}
    /\ LET item_state == get_item_state(k)
           moved == item_state.status # "none"
       IN /\ IF moved
             THEN /\ files' = [files EXCEPT ![item_state.citation_key] = NoFile]
                  /\ handled' = [handled EXCEPT ![k] = @ + 1]
                  /\ sync_items' = [sync_items EXCEPT ![k] = NoRow]
                  /\ marked' = [marked EXCEPT ![k] = @ + 1]
             ELSE UNCHANGED <<files, handled, sync_items, marked>>
          /\ IF mode = "full"
             THEN /\ removed_count' = IF moved THEN removed_count + 1
                                      ELSE removed_count
                  /\ result' = result
             ELSE /\ result' = [result EXCEPT !.items_removed = @ + 1]
                  /\ removed_count' = removed_count
    /\ UNCHANGED <<aside, remote, template, shared, faults, failed, last_library_version, template_version,
                   pc, entry, rule, mode, prev_rule, prev_equal, last_version,
                   current_version, template_changed, current_hash, items, batch_data,
                   force_rerender, pending, calls, rendered, before>>

\* mutant: the row is not marked removed
handle_deleted_item_not_marked(k) ==
    /\ pc = "deletions"
    /\ k \in removed_keys
    /\ removed_keys' = removed_keys \ {k}
    /\ LET item_state == get_item_state(k)
           moved == item_state.status # "none"
       IN /\ IF moved
             THEN /\ files' = [files EXCEPT ![item_state.citation_key] = NoFile]
                  /\ handled' = [handled EXCEPT ![k] = @ + 1]
             ELSE UNCHANGED <<files, handled>>
          /\ IF mode = "full"
             THEN /\ removed_count' = IF moved THEN removed_count + 1
                                      ELSE removed_count
                  /\ result' = result
             ELSE /\ result' = [result EXCEPT !.items_removed = @ + 1]
                  /\ removed_count' = removed_count
    /\ UNCHANGED <<aside, remote, template, shared, faults, failed, store, marked,
                   pc, entry, rule, mode, prev_rule, prev_equal, last_version,
                   current_version, template_changed, current_hash, items,
                   batch_data, force_rerender, pending, calls, rendered,
                   before>>

\* _handle_deleted_item and what its caller counts
handle_deleted_item(k) ==
    /\ pc = "deletions"
    /\ k \in removed_keys
    /\ removed_keys' = removed_keys \ {k}
    /\ LET item_state == get_item_state(k)
           moved == item_state.status # "none"
       IN /\ IF moved
             THEN /\ files' = [files EXCEPT ![item_state.citation_key] = NoFile]
                  /\ handled' = [handled EXCEPT ![k] = @ + 1]
                  /\ sync_items' = [sync_items EXCEPT ![k].status = "removed"]
                  /\ marked' = [marked EXCEPT ![k] = @ + 1]
             ELSE UNCHANGED <<files, handled, sync_items, marked>>
          /\ IF mode = "full"
             THEN /\ removed_count' = IF moved THEN removed_count + 1
                                      ELSE removed_count
                  /\ result' = result
             ELSE /\ result' = [result EXCEPT !.items_removed = @ + 1]
                  /\ removed_count' = removed_count
    /\ UNCHANGED <<aside, remote, template, shared, faults, failed, last_library_version, template_version,
                   pc, entry, rule, mode, prev_rule, prev_equal, last_version,
                   current_version, template_changed, current_hash, items, batch_data,
                   force_rerender, pending, calls, rendered, before>>

\* ------------------------------------------------------------------ faults
\* A collaborator raises inside a worker: while the record is parsed or its
\* row is read ("parse"), while the artifact is read, rendered or written
\* ("render"), or while the fingerprint is taken or the row is upserted
\* ("upsert").  The main thread catches it from future.result() and adds
\* one error.
sync_single_item_batch_fails(k, item_data, annotations, force, res, at) ==
    LET r1 == increment_processed(res)
        r2 == add_annotations(r1, annotations.n)
        existing_state == get_item_state(k)
        existing_content == read_existing(item_data.ckey)
    IN CASE at = "parse" ->
              /\ result' = add_error(r1, k)
              /\ UNCHANGED <<sync_items, files, rendered>>
         [] at = "render" ->
              /\ HasCitationKey(item_data)
              /\ result' = add_error(r2, k)
              /\ UNCHANGED <<sync_items, files, rendered>>
         [] at = "upsert" ->
              /\ HasCitationKey(item_data)
              /\ ~unchanged_skip(existing_state, item_data, existing_content,
                                 annotations, force)
              /\ rendered' = rendered \cup {k}
              /\ files' = [files EXCEPT
                             ![item_data.ckey] = render_item(item_data, annotations)]
              /\ result' = add_error(r2, k)
              /\ UNCHANGED sync_items

\* mutant: the exception of the task is not caught
sync_item_fails_uncaught(k, at) ==
    /\ pc = "items"
    /\ mode \in {"full", "delta"}
    /\ k \in pending
    /\ CanChange
    /\ faults' = faults + 1
    /\ sync_single_item_batch_fails(k, items[k], batch_data[k], force_rerender,
                                    result, at)
    /\ pending' = pending \ {k}
    /\ failed' = failed \cup {k}
    /\ pc' = "raised"
    /\ UNCHANGED <<aside, remote, template, shared, last_library_version, template_version,
                   entry, rule, mode, prev_rule, prev_equal, last_version,
                   current_version, template_changed, current_hash, items, batch_data,
                   force_rerender, removed_keys, removed_count, calls,
                   handled, marked, before>>

sync_item_fails(k, at) ==
    /\ pc = "items"
    /\ mode \in {"full", "delta"}
    /\ k \in pending
    /\ CanChange
    /\ faults' = faults + 1
    /\ sync_single_item_batch_fails(k, items[k], batch_data[k], force_rerender,
                                    result, at)
    /\ pending' = pending \ {k}
    /\ failed' = failed \cup {k}
    /\ UNCHANGED <<aside, remote, template, shared, last_library_version, template_version,
                   pc, entry, rule, mode, prev_rule, prev_equal, last_version,
                   current_version, template_changed, current_hash, items, batch_data,
                   force_rerender, removed_keys, removed_count, calls,
                   handled, marked, before>>

\* the same inside _rerender_single_item, on a row with a cached payload
rerender_single_item_fails(k, item_state, annotations, res, at) ==
    LET item_data == item_state.item_json
    IN /\ item_data.present
       /\ CASE at = "render" ->
                 /\ result' = add_error(res, k)
                 /\ UNCHANGED <<sync_items, files, rendered>>
            [] at = "upsert" ->
                 /\ HasCitationKey(item_data)
                 /\ rendered' = rendered \cup {k}
                 /\ files' = [files EXCEPT
                                ![item_state.citation_key] =
                                    render_item(item_data, annotations)]
                 /\ result' = add_error(res, k)
                 /\ UNCHANGED sync_items

rerender_item_fails(k, at) ==
    /\ pc = "items"
    /\ mode = "rerender"
    /\ k \in pending
    /\ CanChange
    /\ faults' = faults + 1
    /\ rerender_single_item_fails(k, sync_items[k], batch_data[k], result, at)
    /\ pending' = pending \ {k}
    /\ failed' = failed \cup {k}
    /\ UNCHANGED <<aside, remote, template, shared, last_library_version, template_version,
                   pc, entry, rule, mode, prev_rule, prev_equal, last_version,
                   current_version, template_changed, current_hash, items, batch_data,
                   force_rerender, removed_keys, removed_count, calls, handled,
                   marked, before>>

\* Reading the recorded or the current library version raises: the
\* operation re-raises before anything else is done.
begin_raises(e) ==
    /\ pc \in {"idle", "done", "raised"}
    /\ CanChange
    /\ faults' = faults + 1
    /\ pc' = "raised"
    /\ entry' = e
    /\ rule' = 0
    /\ mode' = "none"
    /\ prev_rule' = -1
    /\ prev_equal' = FALSE
    /\ last_version' = NoLibraryVersion
    /\ current_version' = 0
    /\ template_changed' = FALSE
    /\ current_hash' = NoTemplateVersion
    /\ items' = [k \in Keys |-> NoItem]
    /\ batch_data' = [k \in Keys |-> NoAnn]
    /\ force_rerender' = FALSE
    /\ pending' = {}
    /\ removed_keys' = {}
    /\ removed_count' = 0
    /\ result' = NewSyncResult
    /\ calls' = {}
    /\ rendered' = {}
    /\ handled' = [k \in Keys |-> 0]
    /\ marked' = [k \in Keys |-> 0]
    /\ before' = [sync_items |-> sync_items, files |-> files,
                   last_library_version |-> last_library_version,
                   template_version |-> template_version]
    /\ failed' = {}
    /\ UNCHANGED <<aside, remote, template, shared, store, files>>

RunUnchangedAtRaise ==
    UNCHANGED <<aside, remote, template, shared, store, entry, rule, mode,
                prev_rule, prev_equal, last_version, current_version,
                template_changed, current_hash, items, batch_data, force_rerender,
                pending, removed_keys, removed_count, result, calls, rendered,
                marked, before, failed>>

\* mutant: the failed fetch records the library version it had read
fetch_raises_records_version ==
    /\ pc = "fetch"
    /\ CanChange
    /\ faults' = faults + 1
    /\ pc' = "raised"
    /\ last_library_version' = current_version
    /\ UNCHANGED <<aside, remote, template, shared, sync_items, template_version,
                   files, entry, rule, mode, prev_rule, prev_equal, last_version,
                   current_version, template_changed, current_hash, items,
                   batch_data, force_rerender, pending, removed_keys,
                   removed_count, result, calls, rendered, handled, marked,
                   before, failed>>

\* Fetching the item set or the batch prefetch raises.
fetch_raises ==
    /\ pc = "fetch"
    /\ CanChange
    /\ faults' = faults + 1
    /\ pc' = "raised"
    /\ RunUnchangedAtRaise
    /\ UNCHANGED <<files, handled>>

\* Deletion reconciliation raises while it reads the remote keys, the
\* tracked keys or the deleted keys.
deletions_raise ==
    /\ pc = "items"
    /\ mode \in {"full", "delta"}
    /\ pending = {}
    /\ CanChange
    /\ faults' = faults + 1
    /\ pc' = "raised"
    /\ RunUnchangedAtRaise
    /\ UNCHANGED <<files, handled>>

\* _handle_deleted_item raises: before the artifact is handled ("files") or
\* when the row is to be marked ("mark").
handle_deleted_item_raises(k, at) ==
    /\ pc = "deletions"
    /\ k \in removed_keys
    /\ CanChange
    /\ faults' = faults + 1
    /\ pc' = "raised"
    /\ LET item_state == get_item_state(k)
       IN CASE at = "files" -> UNCHANGED <<files, handled>>
            [] at = "mark" ->
                 /\ item_state.status # "none"
                 /\ files' = [files EXCEPT ![item_state.citation_key] = NoFile]
                 /\ handled' = [handled EXCEPT ![k] = @ + 1]
    /\ RunUnchangedAtRaise

\* ------------------------------------------------------------------ commit
RunUnchangedAtCommit ==
    UNCHANGED <<aside, remote, template, shared, faults, failed, sync_items, files, entry, rule, mode,
                prev_rule, prev_equal, last_version, current_version,
                template_changed, current_hash, items, batch_data, force_rerender, pending,
                removed_keys, removed_count, calls, rendered, handled, marked,
                before>>

commit_full ==
    /\ pc = "deletions"
    /\ mode = "full"
    /\ removed_keys = {}
    /\ result' = [result EXCEPT !.items_removed = removed_count]
    /\ last_library_version' = current_version
    /\ template_version' = template
    /\ pc' = "done"
    /\ RunUnchangedAtCommit

\* mutant: the library version of the run is not recorded
commit_delta_keeps_version ==
    /\ pc = "deletions"
    /\ mode = "delta"
    /\ removed_keys = {}
    /\ last_library_version' = last_version
    /\ template_version' = template
    /\ pc' = "done"
    /\ result' = result
    /\ RunUnchangedAtCommit

\* mutant: the library version is read again when the run ends
commit_delta_reads_again ==
    /\ pc = "deletions"
    /\ mode = "delta"
    /\ removed_keys = {}
    /\ last_library_version' = library_version
    /\ template_version' = template
    /\ pc' = "done"
    /\ result' = result
    /\ RunUnchangedAtCommit

commit_delta ==
    /\ pc = "deletions"
    /\ mode = "delta"
    /\ removed_keys = {}
    /\ last_library_version' = current_version
    /\ template_version' = template
    /\ pc' = "done"
    /\ result' = result
    /\ RunUnchangedAtCommit

\* mutant: the Template Version is not recorded
commit_rerender_keeps_template ==
    /\ pc = "items"
    /\ mode = "rerender"
    /\ pending = {}
    /\ UNCHANGED <<template_version, last_library_version>>
    /\ pc' = "done"
    /\ result' = result
    /\ RunUnchangedAtCommit

\* mutant: the re-render records the library version it read
commit_rerender_records_version ==
    /\ pc = "items"
    /\ mode = "rerender"
    /\ pending = {}
    /\ template_version' = current_hash
    /\ last_library_version' = current_version
    /\ pc' = "done"
    /\ result' = result
    /\ RunUnchangedAtCommit

commit_rerender ==
    /\ pc = "items"
    /\ mode = "rerender"
    /\ pending = {}
    /\ template_version' = current_hash
    /\ last_library_version' = last_library_version
    /\ pc' = "done"
    /\ result' = result
    /\ RunUnchangedAtCommit

\* ------------------------------------------------------------- the system
Next ==
    \/ \E k \in Keys, ck \in CKeys \cup {NoCitationKey} : RemoteModify(k, ck)
    \/ \E k \in Keys, a \in AnnValues : RemoteAnnotate(k, a)
    \/ \E k \in Keys : RemoteDelete(k)
    \/ \E d \in {FULL_SYNC_GAP, FULL_SYNC_GAP + 1} : RemoteBump(d)
    \/ \E h \in 1..MaxTpl :
          TemplateChange([template_hash |-> h, template_path |-> "custom"])
    \/ full_sync
    \/ incremental_sync
    \/ fetch
    \/ \E k \in Keys : sync_item(k)
    \/ \E k \in Keys : rerender_item(k)
    \/ handle_removed_items
    \/ get_deleted
    \/ \E k \in Keys : handle_deleted_item(k)
    \/ commit_full
    \/ commit_delta
    \/ commit_rerender

Spec == Init /\ [][Next]_vars

\* the runs with faults of the collaborators
Fault ==
    \/ \E k \in Keys, at \in {"parse", "render", "upsert"} : sync_item_fails(k, at)
    \/ \E k \in Keys, at \in {"render", "upsert"} : rerender_item_fails(k, at)
    \/ \E e \in {"full", "incremental"} : begin_raises(e)
    \/ fetch_raises
    \/ deletions_raise
    \/ \E k \in Keys, at \in {"files", "mark"} : handle_deleted_item_raises(k, at)

\* The runs of Next with faults; the library version makes no large step.
NextFail ==
    \/ \E k \in Keys, ck \in CKeys \cup {NoCitationKey} : RemoteModify(k, ck)
    \/ \E k \in Keys, a \in AnnValues : RemoteAnnotate(k, a)
    \/ \E k \in Keys : RemoteDelete(k)
    \/ \E h \in 1..MaxTpl :
          TemplateChange([template_hash |-> h, template_path |-> "custom"])
    \/ full_sync
    \/ incremental_sync
    \/ fetch
    \/ \E k \in Keys : sync_item(k)
    \/ \E k \in Keys : rerender_item(k)
    \/ handle_removed_items
    \/ get_deleted
    \/ \E k \in Keys : handle_deleted_item(k)
    \/ commit_full
    \/ commit_delta
    \/ commit_rerender
    \/ Fault

SpecFail == Init /\ [][NextFail]_vars

\* ------------------------------------------- the library changes mid-run
\* Other clients of the remote library change it while a run is between two
\* of its steps: after the library version was read, before or after the
\* fetch, between two reconciliations, during deletion reconciliation.
InRun ==
    pc \in {"fetch", "items", "deletions"}

LiveModify(k, ck) ==
    /\ InRun
    /\ CanChange
    /\ library_version' = library_version + 1
    /\ remote_items' = [remote_items EXCEPT
                          ![k] = [present |-> TRUE, ckey |-> ck,
                                  version |-> library_version + 1]]
    /\ remote_deleted' = [remote_deleted EXCEPT ![k] = 0]
    /\ UNCHANGED <<remote_annotations, template, store, files, run, faults,
                   shared, aside>>

LiveDelete(k) ==
    /\ InRun
    /\ remote_items[k].present
    /\ CanChange
    /\ library_version' = library_version + 1
    /\ remote_items' = [remote_items EXCEPT ![k] = NoItem]
    /\ remote_annotations' = [remote_annotations EXCEPT ![k] = NoAnn]
    /\ remote_deleted' = [remote_deleted EXCEPT ![k] = library_version + 1]
    /\ UNCHANGED <<template, store, files, run, faults, shared, aside>>

\* records change between the runs and during them; the template is left
\* alone, so that every run is a Full Sync, a delta or a no-op
NextLive ==
    \/ \E k \in Keys, ck \in CKeys \cup {NoCitationKey} : RemoteModify(k, ck)
    \/ \E k \in Keys : RemoteDelete(k)
    \/ \E k \in Keys, ck \in CKeys : LiveModify(k, ck)
    \/ \E k \in Keys : LiveDelete(k)
    \/ full_sync
    \/ incremental_sync
    \/ fetch
    \/ \E k \in Keys : sync_item(k)
    \/ handle_removed_items
    \/ get_deleted
    \/ \E k \in Keys : handle_deleted_item(k)
    \/ commit_full
    \/ commit_delta

SpecLive == Init /\ [][NextLive]_vars


\* ------------------------------------- the SyncResult shared by the pool
\* Each method is "with self._lock: self.<field> += amount" (add_error:
\* "self.errors.append(error)"): the lock is taken, the field is loaded, the
\* sum is stored, the lock is released.  The threads call the methods in
\* any order and interleave at every step.
Methods ==
    {"increment_processed", "increment_created", "increment_updated",
     "increment_skipped", "add_annotations", "add_error"}

field_of(method) ==
    CASE method = "increment_processed" -> "total_items_processed"
      [] method = "increment_created" -> "items_created"
      [] method = "increment_updated" -> "items_updated"
      [] method = "increment_skipped" -> "items_skipped"
      [] method = "add_annotations" -> "annotations_synced"
      [] method = "add_error" -> "errors"

\* everything but the SyncResult and the threads on it
EngineUnchanged ==
    UNCHANGED <<aside, remote, template, store, files, faults, pc, entry, rule, mode,
                prev_rule, prev_equal, last_version, current_version,
                template_changed, current_hash, items, batch_data, force_rerender,
                pending, removed_keys, removed_count, calls, rendered, handled,
                marked, before, failed, tasks>>

\* a thread calls a method; an error string is unique to its call
call(t, method, amount) ==
    /\ threads[t].at = "out"
    /\ tally.calls < MaxCalls
    /\ threads' = [threads EXCEPT
                     ![t] = [at |-> "called", method |-> method,
                             amount |-> IF method = "add_error"
                                        THEN tally.calls + 1
                                        ELSE IF method = "add_annotations"
                                        THEN amount
                                        ELSE 1,
                             tmp |-> 0]]
    /\ tally' = [tally EXCEPT !.calls = @ + 1]
    /\ UNCHANGED <<lock, result>>
    /\ EngineUnchanged

\* mutant: the method does not wait for the lock
acquire_no_wait(t) ==
    /\ threads[t].at = "called"
    /\ lock' = t
    /\ threads' = [threads EXCEPT ![t].at = "locked"]
    /\ UNCHANGED <<tally, result>>
    /\ EngineUnchanged

\* "with self._lock:" entered
acquire(t) ==
    /\ threads[t].at = "called"
    /\ lock = 0
    /\ lock' = t
    /\ threads' = [threads EXCEPT ![t].at = "locked"]
    /\ UNCHANGED <<tally, result>>
    /\ EngineUnchanged

\* the field is read
load_field(t) ==
    /\ threads[t].at = "locked"
    /\ threads' = [threads EXCEPT
                     ![t].at = "loaded",
                     ![t].tmp = IF threads[t].method = "add_error" THEN 0
                                ELSE result[field_of(threads[t].method)]]
    /\ UNCHANGED <<lock, tally, result>>
    /\ EngineUnchanged

\* the sum is written back; list.append adds to the list in place
store_field(t) ==
    /\ threads[t].at = "loaded"
    /\ threads' = [threads EXCEPT ![t].at = "stored"]
    /\ result' = IF threads[t].method = "add_error"
                 THEN add_error(result, threads[t].amount)
                 ELSE [result EXCEPT
                         ![field_of(threads[t].method)] =
                             threads[t].tmp + threads[t].amount]
    /\ UNCHANGED <<lock, tally>>
    /\ EngineUnchanged

\* "with self._lock:" left, the method returns
release(t) ==
    /\ threads[t].at = "stored"
    /\ lock' = 0
    /\ threads' = [threads EXCEPT ![t] = NoCall]
    /\ tally' = IF threads[t].method = "add_error"
                THEN [tally EXCEPT !.errors = @ \cup {threads[t].amount}]
                ELSE [tally EXCEPT
                        ![field_of(threads[t].method)] = @ + threads[t].amount]
    /\ UNCHANGED result
    /\ EngineUnchanged

NextResult ==
    \/ \E t \in Threads, method \in Methods, amount \in 0..MaxAnn :
          call(t, method, amount)
    \/ \E t \in Threads : acquire(t)
    \/ \E t \in Threads : load_field(t)
    \/ \E t \in Threads : store_field(t)
    \/ \E t \in Threads : release(t)

\* a new SyncResult, before the run has fetched anything
ResultInit ==
    /\ Init
    /\ remote_items = [k \in Keys |-> NoItem]

SpecResult == ResultInit /\ [][NextResult]_vars


\* ------------------------------------------- one pass, worker step by step
\* The tasks of one pass over two records, each advancing by one call of
\* _sync_single_item_batch at a time, in any interleaving.  The store and
\* the artifacts are those of earlier runs; two records may resolve to the
\* same citation key.
PassRows ==
    {NoRow} \cup
    {[status |-> "active", citation_key |-> c, zotero_version |-> v,
      item_json |-> [present |-> TRUE, ckey |-> c, version |-> v]] :
        c \in CKeys, v \in 0..1}

PassAnn ==
    {[n |-> n, rev |-> 0] : n \in 0..MaxAnn}

PassFiles ==
    {NoFile} \cup
    {[exists |-> TRUE, markers |-> a.n, annotations |-> a, version |-> 0,
      template |-> 1] : a \in PassAnn}

PassItems ==
    [present : {TRUE}, ckey : CKeys \cup {NoCitationKey}, version : {1}]

PassInit ==
    /\ library_version = FirstVersion
    /\ remote_items \in [Keys -> PassItems]
    /\ remote_annotations \in [Keys -> PassAnn]
    /\ remote_deleted = [k \in Keys |-> 0]
    /\ template = [template_hash |-> 1, template_path |-> "built-in"]
    /\ sync_items \in [Keys -> PassRows]
    /\ last_library_version = NoLibraryVersion
    /\ template_version = NoTemplateVersion
    /\ files \in [CKeys -> PassFiles]
    /\ pc = "items"
    /\ entry = "none"
    /\ rule = 0
    /\ force_rerender \in BOOLEAN
    /\ mode = IF force_rerender THEN "full" ELSE "delta"
    /\ prev_rule = -1
    /\ prev_equal = FALSE
    /\ last_version = NoLibraryVersion
    /\ current_version = library_version
    /\ template_changed = FALSE
    /\ current_hash = NoTemplateVersion
    /\ items = remote_items
    /\ batch_data = remote_annotations
    /\ pending = Keys
    /\ removed_keys = {}
    /\ removed_count = 0
    /\ result = NewSyncResult
    /\ calls = {}
    /\ rendered = {}
    /\ handled = [k \in Keys |-> 0]
    /\ marked = [k \in Keys |-> 0]
    /\ before = [sync_items |-> sync_items, files |-> files,
                 last_library_version |-> last_library_version,
                 template_version |-> template_version]
    /\ failed = {}
    /\ faults = 0
    /\ SharedIdle
    /\ AsideIdle

\* what no step of a task touches
PassUnchanged ==
    UNCHANGED <<aside, remote, template, last_library_version, template_version,
                faults, lock, threads, tally, pc, entry, rule, mode, prev_rule,
                prev_equal, last_version, current_version, template_changed,
                current_hash, items, batch_data, force_rerender, removed_keys,
                removed_count, calls, handled, marked, before, failed>>

\* mutant: a record without a citation key is reconciled like any other
task_parse_no_exclusion(k) ==
    /\ pc = "items"
    /\ k \in pending
    /\ tasks[k].at = "new"
    /\ result' = increment_processed(result)
    /\ tasks' = [tasks EXCEPT ![k].at = "parsed"]
    /\ pending' = pending
    /\ UNCHANGED <<sync_items, files, rendered>>
    /\ PassUnchanged

\* increment_processed and ZoteroItem.from_api_response
task_parse(k) ==
    /\ pc = "items"
    /\ k \in pending
    /\ tasks[k].at = "new"
    /\ IF HasCitationKey(items[k])
       THEN /\ result' = increment_processed(result)
            /\ tasks' = [tasks EXCEPT ![k].at = "parsed"]
            /\ pending' = pending
       ELSE /\ result' = increment_skipped(increment_processed(result))
            /\ tasks' = [tasks EXCEPT ![k].at = "done"]
            /\ pending' = pending \ {k}
    /\ UNCHANGED <<sync_items, files, rendered>>
    /\ PassUnchanged

\* "with self._db_lock: existing_state = ..." and add_annotations
task_get_item_state(k) ==
    /\ pc = "items"
    /\ k \in pending
    /\ tasks[k].at = "parsed"
    /\ tasks' = [tasks EXCEPT ![k].at = "read",
                              ![k].existing_state = get_item_state(k)]
    /\ result' = add_annotations(result, batch_data[k].n)
    /\ UNCHANGED <<sync_items, files, rendered, pending>>
    /\ PassUnchanged

\* the existing artifact is read when a row exists, and the skip is decided
task_read_existing(k) ==
    /\ pc = "items"
    /\ k \in pending
    /\ tasks[k].at = "read"
    /\ LET existing_content == IF tasks[k].existing_state.status # "none"
                               THEN read_existing(items[k].ckey)
                               ELSE NoFile
       IN IF unchanged_skip(tasks[k].existing_state, items[k], existing_content,
                            batch_data[k], force_rerender)
          THEN /\ tasks' = [tasks EXCEPT ![k].at = "done",
                                         ![k].existing_content = existing_content]
               /\ pending' = pending \ {k}
          ELSE /\ tasks' = [tasks EXCEPT ![k].at = "decided",
                                         ![k].existing_content = existing_content]
               /\ pending' = pending
    /\ UNCHANGED <<sync_items, files, rendered, result>>
    /\ PassUnchanged

\* render_item and write_markdown
task_write_markdown(k) ==
    /\ pc = "items"
    /\ k \in pending
    /\ tasks[k].at = "decided"
    /\ tasks' = [tasks EXCEPT ![k].at = "written"]
    /\ rendered' = rendered \cup {k}
    /\ files' = [files EXCEPT
                   ![items[k].ckey] = render_item(items[k], batch_data[k])]
    /\ UNCHANGED <<sync_items, result, pending>>
    /\ PassUnchanged

\* mutant: a record counts as an update when the store holds any row
task_upsert_item_any_row(k) ==
    /\ pc = "items"
    /\ k \in pending
    /\ tasks[k].at = "written"
    /\ tasks' = [tasks EXCEPT ![k].at = "done"]
    /\ sync_items' = [sync_items EXCEPT
                        ![k] = [status |-> "active",
                                citation_key |-> items[k].ckey,
                                zotero_version |-> items[k].version,
                                item_json |-> items[k]]]
    /\ result' = IF \E j \in Keys : sync_items[j].status # "none"
                 THEN increment_updated(result)
                 ELSE increment_created(result)
    /\ pending' = pending \ {k}
    /\ UNCHANGED <<files, rendered>>
    /\ PassUnchanged

\* "with self._db_lock: upsert_item" and increment_updated / _created
task_upsert_item(k) ==
    /\ pc = "items"
    /\ k \in pending
    /\ tasks[k].at = "written"
    /\ tasks' = [tasks EXCEPT ![k].at = "done"]
    /\ sync_items' = [sync_items EXCEPT
                        ![k] = [status |-> "active",
                                citation_key |-> items[k].ckey,
                                zotero_version |-> items[k].version,
                                item_json |-> items[k]]]
    /\ result' = IF tasks[k].existing_state.status # "none"
                 THEN increment_updated(result)
                 ELSE increment_created(result)
    /\ pending' = pending \ {k}
    /\ UNCHANGED <<files, rendered>>
    /\ PassUnchanged

NextPass ==
    \/ \E k \in Keys : task_parse(k)
    \/ \E k \in Keys : task_get_item_state(k)
    \/ \E k \in Keys : task_read_existing(k)
    \/ \E k \in Keys : task_write_markdown(k)
    \/ \E k \in Keys : task_upsert_item(k)

SpecPass == PassInit /\ [][NextPass]_vars


\* ------------------------------------------------------------ RateLimiter
\* window_seconds, in ticks
WINDOW == 2

\* "while self.requests and self.requests[0] < window_start: popleft()"
RECURSIVE purge(_, _)
purge(queue, window_start) ==
    IF queue # <<>> /\ Head(queue) < window_start
    THEN purge(Tail(queue), window_start)
    ELSE queue

\* the acquisitions recorded at the times from..to
RECURSIVE GrantedIn(_, _)
GrantedIn(from, to) ==
    IF from > to THEN 0
    ELSE (IF from >= 0 THEN granted[from] ELSE 0) + GrantedIn(from + 1, to)

LimiterInit ==
    /\ EngineIdle
    /\ \E max \in 1..MaxRequests : LimiterNew(max)
    /\ CliIdle
    /\ SanitizerIdle
    /\ DbIdle
    /\ PoolIdle
    /\ BatchIdle
    /\ NotesIdle

\* time passes
Tick ==
    /\ clock < MaxTime
    /\ clock' = clock + 1
    /\ UNCHANGED <<max_requests, requests, limiter_lock, callers, granted>>
    /\ UNCHANGED <<engine, not_limiter>>

\* "with self._lock: now = time.time() ..." and the first purge
acquire_enter(c) ==
    /\ callers[c].at = "out"
    /\ GrantedIn(0, MaxTime) < MaxAcquires
    /\ limiter_lock = 0
    /\ limiter_lock' = c
    /\ callers' = [callers EXCEPT
                     ![c] = [at |-> "purged", now |-> clock,
                             window_start |-> clock - WINDOW, wake |-> 0]]
    /\ requests' = purge(requests, clock - WINDOW)
    /\ UNCHANGED <<clock, max_requests, granted>>
    /\ UNCHANGED <<engine, not_limiter>>

\* "if len(self.requests) >= self.max_requests:" with the sleep it may
\* start; self.requests[0] of an empty queue raises IndexError
acquire_check(c) ==
    /\ callers[c].at = "purged"
    /\ IF Len(requests) >= max_requests
       THEN IF requests = <<>>
            THEN /\ callers' = [callers EXCEPT ![c] = NoAcquire]
                 /\ limiter_lock' = 0
            ELSE LET sleep_time == Head(requests) - callers[c].window_start
                 IN /\ callers' =
                         IF sleep_time > 0
                         THEN [callers EXCEPT ![c].at = "sleeping",
                                              ![c].wake = clock + sleep_time]
                         ELSE [callers EXCEPT ![c].at = "append"]
                    /\ limiter_lock' = limiter_lock
       ELSE /\ callers' = [callers EXCEPT ![c].at = "append"]
            /\ limiter_lock' = limiter_lock
    /\ UNCHANGED <<clock, max_requests, requests, granted>>
    /\ UNCHANGED <<engine, not_limiter>>

\* time.sleep(sleep_time) has returned: the clock is read and the queue
\* purged again
acquire_wake(c) ==
    /\ callers[c].at = "sleeping"
    /\ clock >= callers[c].wake
    /\ callers' = [callers EXCEPT ![c].at = "append", ![c].now = clock,
                                  ![c].window_start = clock - WINDOW]
    /\ requests' = purge(requests, clock - WINDOW)
    /\ UNCHANGED <<clock, max_requests, limiter_lock, granted>>
    /\ UNCHANGED <<engine, not_limiter>>

\* "self.requests.append(time.time())", the lock is left, acquire returns
acquire_append(c) ==
    /\ callers[c].at = "append"
    /\ requests' = Append(requests, clock)
    /\ granted' = [granted EXCEPT ![clock] = @ + 1]
    /\ callers' = [callers EXCEPT ![c] = NoAcquire]
    /\ limiter_lock' = 0
    /\ UNCHANGED <<clock, max_requests>>
    /\ UNCHANGED <<engine, not_limiter>>

NextLimiter ==
    \/ Tick
    \/ \E c \in Callers : acquire_enter(c)
    \/ \E c \in Callers : acquire_check(c)
    \/ \E c \in Callers : acquire_wake(c)
    \/ \E c \in Callers : acquire_append(c)

SpecLimiter == LimiterInit /\ [][NextLimiter]_vars


\* ------------------------------------- the detector on arbitrary versions
TemplateVersions ==
    [template_hash : 0..MaxTpl, template_path : {"built-in", "custom", "other"}]

DetectorInit ==
    /\ library_version = FirstVersion
    /\ remote_items = [k \in Keys |-> NoItem]
    /\ remote_annotations = [k \in Keys |-> NoAnn]
    /\ remote_deleted = [k \in Keys |-> 0]
    /\ template \in TemplateVersions
    /\ sync_items = [k \in Keys |-> NoRow]
    /\ last_library_version = NoLibraryVersion
    /\ template_version \in TemplateVersions \cup {NoTemplateVersion}
    /\ files = [c \in CKeys |-> NoFile]
    /\ RunIdle
    /\ faults = 0
    /\ SharedIdle
    /\ AsideIdle

\* TemplateChangeDetector.has_template_changed(current_hash, current_path,
\* stored_version) is called and its value kept
detect ==
    /\ pc = "idle"
    /\ pc' = "done"
    /\ template_changed' = has_template_changed(template.template_hash,
                                                template.template_path,
                                                template_version)
    /\ UNCHANGED <<aside, remote, template, shared, faults, failed, store, files,
                   entry, rule, mode, prev_rule, prev_equal, last_version,
                   current_version, current_hash, items, batch_data,
                   force_rerender, pending, removed_keys, removed_count, result,
                   calls, rendered, handled, marked, before>>

NextDetector ==
    detect

SpecDetector == DetectorInit /\ [][NextDetector]_vars


\* ------------------------------------------------------- the command line
\* One invocation of `zotmd sync` or `zotmd status` in an environment drawn
\* at the start: the configuration file, the remote connection, the State
\* Store file and the behaviour of the engine's sync method.
Commands ==
    {[name |-> "sync", full |-> f, no_progress |-> n] : f, n \in BOOLEAN}
      \cup {[name |-> "status", full |-> FALSE, no_progress |-> FALSE]}

environment == <<config_file, connection, db_file, sync_outcome>>

NOT_CONFIGURED_ERROR == "Error: Not configured. Run 'zotmd config' first."
NOT_CONFIGURED == "  Not configured. Run 'zotmd config' first."

\* click.echo of several lines
echo(out, lines) ==
    out \o lines

CliInit ==
    /\ EngineIdle
    /\ LimiterNew(MaxRequests)
    /\ SanitizerIdle
    /\ DbIdle
    /\ PoolIdle
    /\ BatchIdle
    /\ NotesIdle
    /\ config_file \in {"none", "broken", "good"}
    /\ connection \in BOOLEAN
    /\ db_file \in {"none", "broken", "good"}
    /\ sync_outcome \in {"ok", "errors", "raises"}
    /\ command = NoCommand
    /\ cli_pc = "shell"
    /\ output = <<>>
    /\ exit_code = NoExit
    /\ engine_created = FALSE
    /\ sync_called = "none"
    /\ connection_tested = FALSE
    /\ store_opened = FALSE

\* the user runs a command
invoke(c) ==
    /\ cli_pc = "shell"
    /\ command' = c
    /\ cli_pc' = c.name
    /\ UNCHANGED <<environment, output, exit_code, engine_created, sync_called,
                   connection_tested, store_opened>>
    /\ UNCHANGED <<engine, not_cli>>

\* mutant: sync goes on without a configuration file
sync_config_not_required ==
    /\ cli_pc = "sync"
    /\ IF config_file = "broken"
       THEN /\ output' = echo(output, <<"Error: Failed to load configuration">>)
            /\ exit_code' = 1
            /\ cli_pc' = "exited"
            /\ UNCHANGED <<engine_created, store_opened>>
       ELSE /\ output' = echo(output, <<"Syncing to">>)
            /\ engine_created' = TRUE
            /\ store_opened' = TRUE
            /\ cli_pc' = "sync_run"
            /\ UNCHANGED exit_code
    /\ UNCHANGED <<environment, command, sync_called, connection_tested>>
    /\ UNCHANGED <<engine, not_cli>>

\* sync: the configuration is checked and loaded, the engine is created
sync_config ==
    /\ cli_pc = "sync"
    /\ IF config_file = "none"
       THEN /\ output' = echo(output, <<NOT_CONFIGURED_ERROR>>)
            /\ exit_code' = 1
            /\ cli_pc' = "exited"
            /\ UNCHANGED <<engine_created, store_opened>>
       ELSE IF config_file = "broken"
       THEN /\ output' = echo(output, <<"Error: Failed to load configuration">>)
            /\ exit_code' = 1
            /\ cli_pc' = "exited"
            /\ UNCHANGED <<engine_created, store_opened>>
       ELSE /\ output' = echo(output, <<"Syncing to">>)
            /\ engine_created' = TRUE
            /\ store_opened' = TRUE
            /\ cli_pc' = "sync_run"
            /\ UNCHANGED exit_code
    /\ UNCHANGED <<environment, command, sync_called, connection_tested>>
    /\ UNCHANGED <<engine, not_cli>>

\* sync: the engine runs and the result is displayed
sync_run ==
    /\ cli_pc = "sync_run"
    /\ sync_called' = IF command.full THEN "full_sync" ELSE "incremental_sync"
    /\ LET announced ==
             echo(output, <<IF command.full THEN "Performing full sync..."
                            ELSE "Performing incremental sync...">>)
       IN IF sync_outcome = "raises"
          THEN /\ output' = echo(announced, <<"Error: Sync failed">>)
               /\ exit_code' = 1
          ELSE /\ output' =
                    echo(announced,
                         IF sync_outcome = "errors"
                         THEN <<"Sync Complete", "Errors">>
                         ELSE <<"Sync Complete">>)
               /\ exit_code' = 0
    /\ cli_pc' = "exited"
    /\ UNCHANGED <<environment, command, engine_created, connection_tested,
                   store_opened>>
    /\ UNCHANGED <<engine, not_cli>>

\* status: the configuration section
status_config ==
    /\ cli_pc = "status"
    /\ LET header == echo(output, <<"ZotMD Status", "Configuration:">>)
       IN IF config_file = "good"
          THEN /\ output' = echo(header, <<"  Config file:", "  Library ID:">>)
               /\ cli_pc' = "status_connection"
               /\ UNCHANGED exit_code
          ELSE /\ output' =
                    echo(header,
                         IF config_file = "broken"
                         THEN <<"  Config file:", "  Error: Failed to read config">>
                         ELSE <<NOT_CONFIGURED>>)
               /\ exit_code' = 0
               /\ cli_pc' = "exited"
    /\ UNCHANGED <<environment, command, engine_created, sync_called,
                   connection_tested, store_opened>>
    /\ UNCHANGED <<engine, not_cli>>

\* status: the connection test
status_connection ==
    /\ cli_pc = "status_connection"
    /\ connection_tested' = TRUE
    /\ output' = echo(output,
                      IF connection
                      THEN <<"Connection:", "  Status: Connected">>
                      ELSE <<"Connection:", "  Status: Connection failed">>)
    /\ cli_pc' = "status_statistics"
    /\ UNCHANGED <<environment, command, exit_code, engine_created, sync_called,
                   store_opened>>
    /\ UNCHANGED <<engine, not_cli>>

\* status: the sync statistics
status_statistics ==
    /\ cli_pc = "status_statistics"
    /\ store_opened' = (db_file # "none")
    /\ output' = echo(output,
                      IF db_file = "none"
                      THEN <<"Sync Statistics:", "  No sync data yet.">>
                      ELSE IF db_file = "broken"
                      THEN <<"Sync Statistics:", "  Error: Failed to read database">>
                      ELSE <<"Sync Statistics:", "  Active items:">>)
    /\ exit_code' = 0
    /\ cli_pc' = "exited"
    /\ UNCHANGED <<environment, command, engine_created, sync_called,
                   connection_tested>>
    /\ UNCHANGED <<engine, not_cli>>

NextCli ==
    \/ \E c \in Commands : invoke(c)
    \/ sync_config
    \/ sync_run
    \/ status_config
    \/ status_connection
    \/ status_statistics

SpecCli == CliInit /\ [][NextCli]_vars


\* ------------------------------------------------------------ sanitize_path
\* A string is a sequence of characters; the alphabet has two whitespace
\* characters, the two quote characters and a letter.
Whitespace == {" ", "\t"}
Quotes == {"\"", "'"}
Alphabet == Whitespace \cup Quotes \cup {"a"}
Paths == UNION {[1..n -> Alphabet] : n \in 0..MaxLen}

\* str.strip()
RECURSIVE lstrip(_)
lstrip(str) ==
    IF str # <<>> /\ Head(str) \in Whitespace THEN lstrip(Tail(str)) ELSE str
RECURSIVE rstrip(_)
rstrip(str) ==
    IF str # <<>> /\ str[Len(str)] \in Whitespace
    THEN rstrip(SubSeq(str, 1, Len(str) - 1))
    ELSE str
strip(str) ==
    rstrip(lstrip(str))

\* str.startswith and str.endswith with a one-character argument
startswith(str, c) ==
    Len(str) >= 1 /\ str[1] = c
endswith(str, c) ==
    Len(str) >= 1 /\ str[Len(str)] = c

\* str[1:-1]
inner(str) ==
    SubSeq(str, 2, Len(str) - 1)

sanitize_path(str) ==
    LET stripped == strip(str)
        unquoted == IF \/ startswith(stripped, "\"") /\ endswith(stripped, "\"")
                       \/ startswith(stripped, "'") /\ endswith(stripped, "'")
                    THEN inner(stripped)
                    ELSE stripped
    IN strip(unquoted)

SanitizeInit ==
    /\ EngineIdle
    /\ LimiterNew(MaxRequests)
    /\ CliIdle
    /\ DbIdle
    /\ PoolIdle
    /\ BatchIdle
    /\ NotesIdle
    /\ path_str \in Paths
    /\ sanitized = NotReturned

\* sanitize_path(path_str) is called and returns
call_sanitize_path ==
    /\ ~sanitized.returned
    /\ sanitized' = [returned |-> TRUE, value |-> sanitize_path(path_str)]
    /\ UNCHANGED path_str
    /\ UNCHANGED <<engine, not_sanitizer>>

NextSanitize ==
    call_sanitize_path

SpecSanitize == SanitizeInit /\ [][NextSanitize]_vars


\* ------------------------------------------ one pass, with the store lock
\* The tasks of one pass, each advancing by one call at a time, with the
\* acquisition of _db_lock as a step of its own.  The item set of a Full
\* Sync or a delta is the list the remote client returned, in which a key
\* may appear more than once; the item set of a Full Re-render is the set
\* of active rows.
CitationKeyOf(k) ==
    IF k = "K1" THEN "ck1" ELSE "ck2"

LockRows(k) ==
    {NoRow} \cup
    {[status |-> "active", citation_key |-> CitationKeyOf(k), zotero_version |-> v,
      item_json |-> [present |-> TRUE, ckey |-> CitationKeyOf(k), version |-> v]] :
        v \in 0..1}

LockFiles ==
    {[c \in CKeys |-> NoFile],
     [c \in CKeys |-> [exists |-> TRUE, markers |-> 0, annotations |-> NoAnn,
                       version |-> 0, template |-> 1]]}

\* the item lists of a pass: a key for each job, or no item for the job
ItemLists ==
    IF mode = "rerender"
    THEN {l \in [Jobs -> Keys \cup {NoKey}] :
            /\ \A k \in Keys :
                 sync_items[k].status = "active" <=> \E j \in Jobs : l[j] = k
            /\ \A i, j \in Jobs : (i # j /\ l[i] = l[j]) => l[i] = NoKey}
    ELSE [Jobs -> Keys \cup {NoKey}]

NewJob(k) ==
    IF k = NoKey THEN NoJob
    ELSE [key |-> k, at |-> "new",
          item_data |-> IF mode = "rerender" THEN NoItem ELSE items[k],
          existing_state |-> IF mode = "rerender" THEN sync_items[k] ELSE NoRow,
          is_update |-> FALSE]

LockInit ==
    /\ library_version = FirstVersion
    /\ remote_items \in
         {[k \in Keys |-> [present |-> TRUE,
                           ckey |-> IF k = "K1" THEN "ck1" ELSE c,
                           version |-> 1]] : c \in {"ck2", NoCitationKey}}
    /\ remote_annotations = [k \in Keys |-> NoAnn]
    /\ remote_deleted = [k \in Keys |-> 0]
    /\ template = [template_hash |-> 1, template_path |-> "built-in"]
    /\ sync_items \in {rows \in [Keys -> UNION {LockRows(k) : k \in Keys}] :
                          \A k \in Keys : rows[k] \in LockRows(k)}
    /\ last_library_version = NoLibraryVersion
    /\ template_version = NoTemplateVersion
    /\ files \in LockFiles
    /\ pc = "items"
    /\ entry = "none"
    /\ rule = 0
    /\ force_rerender \in BOOLEAN
    /\ mode \in IF force_rerender THEN {"full"} ELSE {"delta", "rerender"}
    /\ prev_rule = -1
    /\ prev_equal = FALSE
    /\ last_version = NoLibraryVersion
    /\ current_version = library_version
    /\ template_changed = (mode = "rerender")
    /\ current_hash = NoTemplateVersion
    /\ items = remote_items
    /\ batch_data = remote_annotations
    /\ pending = {}
    /\ removed_keys = {}
    /\ removed_count = 0
    /\ result = NewSyncResult
    /\ calls = {}
    /\ rendered = {}
    /\ handled = [k \in Keys |-> 0]
    /\ marked = [k \in Keys |-> 0]
    /\ before = [sync_items |-> sync_items, files |-> files,
                 last_library_version |-> last_library_version,
                 template_version |-> template_version]
    /\ failed = {}
    /\ faults = 0
    /\ SharedIdle
    /\ LimiterNew(MaxRequests)
    /\ CliIdle
    /\ SanitizerIdle
    /\ PoolIdle
    /\ BatchIdle
    /\ NotesIdle
    /\ db_lock = 0
    /\ \E l \in ItemLists : jobs = [j \in Jobs |-> NewJob(l[j])]

\* what no step of a job touches
LockUnchanged ==
    UNCHANGED <<not_db, remote, template, last_library_version, template_version,
                faults, shared, pc, entry, rule, mode, prev_rule, prev_equal,
                last_version, current_version, template_changed, current_hash,
                items, batch_data, force_rerender, pending, removed_keys,
                removed_count, handled, marked, before, failed>>

\* the positions from which a job enters "with self._db_lock:", and the
\* position inside the block
LockEntry(j) ==
    IF jobs[j].at = "parsed" THEN "reading"
    ELSE IF jobs[j].at = "written" THEN "writing"
    ELSE IF jobs[j].at = "new" /\ mode = "rerender" THEN "selecting"
    ELSE "none"

\* increment_processed and ZoteroItem.from_api_response
job_parse(j) ==
    /\ mode # "rerender"
    /\ jobs[j].at = "new"
    /\ IF HasCitationKey(jobs[j].item_data)
       THEN /\ result' = increment_processed(result)
            /\ jobs' = [jobs EXCEPT ![j].at = "parsed"]
       ELSE /\ result' = increment_skipped(increment_processed(result))
            /\ jobs' = [jobs EXCEPT ![j].at = "done"]
    /\ UNCHANGED <<sync_items, files, rendered, calls, db_lock>>
    /\ LockUnchanged

\* "with self._db_lock:" is entered
job_acquire_db_lock(j) ==
    /\ LockEntry(j) # "none"
    /\ db_lock = 0
    /\ db_lock' = j
    /\ jobs' = [jobs EXCEPT ![j].at = LockEntry(j)]
    /\ UNCHANGED <<sync_items, files, rendered, calls, result>>
    /\ LockUnchanged

\* mutant: the lock is kept after the row was read
job_get_item_state_keeps_lock(j) ==
    /\ jobs[j].at = "reading"
    /\ jobs' = [jobs EXCEPT ![j].at = "read",
                            ![j].existing_state = get_item_state(jobs[j].key)]
    /\ UNCHANGED <<sync_items, files, rendered, calls, result, db_lock>>
    /\ LockUnchanged

\* "existing_state = self.state.get_item_state(item.key)", and the block ends
job_get_item_state(j) ==
    /\ jobs[j].at = "reading"
    /\ jobs' = [jobs EXCEPT ![j].at = "read",
                            ![j].existing_state = get_item_state(jobs[j].key)]
    /\ db_lock' = 0
    /\ UNCHANGED <<sync_items, files, rendered, calls, result>>
    /\ LockUnchanged

\* add_annotations; the existing artifact is read when a row exists, and the
\* skip is decided
job_read_existing(j) ==
    /\ jobs[j].at = "read"
    /\ result' = add_annotations(result, batch_data[jobs[j].key].n)
    /\ LET existing_content == IF jobs[j].existing_state.status # "none"
                               THEN read_existing(jobs[j].item_data.ckey)
                               ELSE NoFile
       IN IF unchanged_skip(jobs[j].existing_state, jobs[j].item_data,
                            existing_content, batch_data[jobs[j].key],
                            force_rerender)
          THEN jobs' = [jobs EXCEPT ![j].at = "done"]
          ELSE jobs' = [jobs EXCEPT
                          ![j].at = "decided",
                          ![j].is_update = (jobs[j].existing_state.status # "none")]
    /\ UNCHANGED <<sync_items, files, rendered, calls, db_lock>>
    /\ LockUnchanged

\* render_item and write_markdown
job_write_markdown(j) ==
    /\ mode # "rerender"
    /\ jobs[j].at = "decided"
    /\ jobs' = [jobs EXCEPT ![j].at = "written"]
    /\ rendered' = rendered \cup {jobs[j].key}
    /\ files' = [files EXCEPT
                   ![jobs[j].item_data.ckey] =
                       render_item(jobs[j].item_data, batch_data[jobs[j].key])]
    /\ UNCHANGED <<sync_items, calls, result, db_lock>>
    /\ LockUnchanged

\* _rerender_single_item: "SELECT item_json ...", and the block ends; the
\* record is fetched when the row holds no payload
job_select_item_json(j) ==
    /\ jobs[j].at = "selecting"
    /\ db_lock' = 0
    /\ LET row == sync_items[jobs[j].key]
           cached == row.item_json.present
           item_data == IF cached THEN row.item_json
                        ELSE remote_items[jobs[j].key]
       IN /\ calls' = IF cached THEN calls ELSE calls \cup {"item"}
          /\ IF ~item_data.present
             THEN /\ result' = add_error(result, jobs[j].key)
                  /\ jobs' = [jobs EXCEPT ![j].at = "done"]
             ELSE IF ~HasCitationKey(item_data)
             THEN /\ result' = result
                  /\ jobs' = [jobs EXCEPT ![j].at = "done"]
             ELSE /\ result' = result
                  /\ jobs' = [jobs EXCEPT ![j].at = "decided",
                                          ![j].item_data = item_data]
    /\ UNCHANGED <<sync_items, files, rendered>>
    /\ LockUnchanged

\* _rerender_single_item: read_existing, render_item and write_markdown
job_rerender_write(j) ==
    /\ mode = "rerender"
    /\ jobs[j].at = "decided"
    /\ jobs' = [jobs EXCEPT ![j].at = "written"]
    /\ rendered' = rendered \cup {jobs[j].key}
    /\ files' = [files EXCEPT
                   ![jobs[j].existing_state.citation_key] =
                       render_item(jobs[j].item_data, batch_data[jobs[j].key])]
    /\ UNCHANGED <<sync_items, calls, result, db_lock>>
    /\ LockUnchanged

\* "self.state.upsert_item(...)", the block ends, and the outcome is counted
job_upsert_item(j) ==
    /\ jobs[j].at = "writing"
    /\ jobs' = [jobs EXCEPT ![j].at = "done"]
    /\ db_lock' = 0
    /\ IF mode = "rerender"
       THEN /\ sync_items' =
                 [sync_items EXCEPT
                    ![jobs[j].key] =
                        [status |-> jobs[j].existing_state.status,
                         citation_key |-> jobs[j].existing_state.citation_key,
                         zotero_version |-> jobs[j].existing_state.zotero_version,
                         item_json |-> jobs[j].item_data]]
            /\ result' = increment_updated(result)
       ELSE /\ sync_items' =
                 [sync_items EXCEPT
                    ![jobs[j].key] =
                        [status |-> "active",
                         citation_key |-> jobs[j].item_data.ckey,
                         zotero_version |-> jobs[j].item_data.version,
                         item_json |-> jobs[j].item_data]]
            /\ result' = IF jobs[j].is_update THEN increment_updated(result)
                         ELSE increment_created(result)
    /\ UNCHANGED <<files, rendered, calls>>
    /\ LockUnchanged

NextLock ==
    \/ \E j \in Jobs : job_parse(j)
    \/ \E j \in Jobs : job_acquire_db_lock(j)
    \/ \E j \in Jobs : job_get_item_state(j)
    \/ \E j \in Jobs : job_read_existing(j)
    \/ \E j \in Jobs : job_write_markdown(j)
    \/ \E j \in Jobs : job_select_item_json(j)
    \/ \E j \in Jobs : job_rerender_write(j)
    \/ \E j \in Jobs : job_upsert_item(j)

SpecLock == LockInit /\ [][NextLock]_vars


\* ------------------------------------------- one pass, main thread and pool
\* The main thread of a Full Sync or a delta fetches the items, builds the
\* batch data, submits one task per item to a ThreadPoolExecutor of
\* MAX_WORKERS threads, takes the futures as they complete, leaves the
\* "with" block, reconciles the deletions and commits.  A task counts its
\* item as processed when it starts and then returns or raises.
Min(set) ==
    CHOOSE x \in set : \A y \in set : x <= y

Fetching == {i \in ItemIds : futures[i] # "none"}
Waiting == {i \in ItemIds : futures[i] = "fetched"}
Queued == {i \in ItemIds : futures[i] = "queued"}
Running == {i \in ItemIds : futures[i] = "running"}
Finished == {i \in ItemIds : futures[i] \in {"returned", "raised"}}
IdleWorkers == {w \in PoolWorkers : pool_threads[w] = 0}

PoolInit ==
    /\ EngineIdle
    /\ LimiterNew(MaxRequests)
    /\ CliIdle
    /\ SanitizerIdle
    /\ DbIdle
    /\ BatchIdle
    /\ NotesIdle
    /\ main = "fetch"
    /\ futures = [i \in ItemIds |-> "none"]
    /\ yielded = {}
    /\ pool_threads = [w \in PoolWorkers |-> 0]
    /\ starts = [i \in ItemIds |-> 0]
    /\ pool_result = NewPoolResult

\* get_all_items / get_items_since_version returns n items, or raises
main_fetch(n, ok) ==
    /\ main = "fetch"
    /\ IF ok
       THEN /\ futures' = [i \in ItemIds |-> IF i <= n THEN "fetched" ELSE "none"]
            /\ main' = "prefetch"
       ELSE /\ main' = "raised"
            /\ UNCHANGED futures
    /\ UNCHANGED <<yielded, pool_threads, starts, pool_result>>
    /\ UNCHANGED <<engine, not_pool>>

\* _build_batch_data returns, or raises
main_build_batch_data(ok) ==
    /\ main = "prefetch"
    /\ main' = IF ok THEN "submit" ELSE "raised"
    /\ UNCHANGED <<futures, yielded, pool_threads, starts, pool_result>>
    /\ UNCHANGED <<engine, not_pool>>

\* executor.submit for the next item of the list
main_submit ==
    /\ main = "submit"
    /\ Waiting # {}
    /\ futures' = [futures EXCEPT ![Min(Waiting)] = "queued"]
    /\ UNCHANGED <<main, yielded, pool_threads, starts, pool_result>>
    /\ UNCHANGED <<engine, not_pool>>

\* every item is submitted: "for future in as_completed(futures)" begins
main_as_completed ==
    /\ main = "submit"
    /\ Waiting = {}
    /\ main' = "collect"
    /\ UNCHANGED <<futures, yielded, pool_threads, starts, pool_result>>
    /\ UNCHANGED <<engine, not_pool>>

\* an idle thread of the pool takes the oldest queued task, whose first
\* statement is result.increment_processed()
worker_start(w) ==
    /\ IdleWorkers # {}
    /\ w = Min(IdleWorkers)
    /\ Queued # {}
    /\ futures' = [futures EXCEPT ![Min(Queued)] = "running"]
    /\ pool_threads' = [pool_threads EXCEPT ![w] = Min(Queued)]
    /\ starts' = [starts EXCEPT ![Min(Queued)] = @ + 1]
    /\ pool_result' = [pool_result EXCEPT !.total_items_processed = @ + 1]
    /\ UNCHANGED <<main, yielded>>
    /\ UNCHANGED <<engine, not_pool>>

\* the task of a thread returns, having created or skipped its item, or
\* raises
worker_finish(w, outcome) ==
    /\ pool_threads[w] # 0
    /\ futures' = [futures EXCEPT ![pool_threads[w]] =
                      IF outcome = "raised" THEN "raised" ELSE "returned"]
    /\ pool_threads' = [pool_threads EXCEPT ![w] = 0]
    /\ pool_result' =
         IF outcome = "created"
         THEN [pool_result EXCEPT !.items_created = @ + 1]
         ELSE IF outcome = "skipped"
         THEN [pool_result EXCEPT !.items_skipped = @ + 1]
         ELSE pool_result
    /\ UNCHANGED <<main, yielded, starts>>
    /\ UNCHANGED <<engine, not_pool>>

\* as_completed yields a finished future; future.result() raises the
\* task's exception, which is recorded
main_future_result(i) ==
    /\ main = "collect"
    /\ i \in Finished \ yielded
    /\ yielded' = yielded \cup {i}
    /\ pool_result' = IF futures[i] = "raised"
                      THEN [pool_result EXCEPT !.errors = @ \cup {i}]
                      ELSE pool_result
    /\ UNCHANGED <<main, futures, pool_threads, starts>>
    /\ UNCHANGED <<engine, not_pool>>

\* mutant: the main thread leaves the pool when one future has completed
main_leave_pool_first_completed ==
    /\ main = "collect"
    /\ yielded # {} \/ Fetching = {}
    /\ main' = "deletions"
    /\ UNCHANGED <<futures, yielded, pool_threads, starts, pool_result>>
    /\ UNCHANGED <<engine, not_pool>>

\* as_completed is exhausted and the "with ThreadPoolExecutor" block ends:
\* shutdown(wait=True) returns when every thread is idle
main_leave_pool ==
    /\ main = "collect"
    /\ yielded = Fetching
    /\ IdleWorkers = PoolWorkers
    /\ main' = "deletions"
    /\ UNCHANGED <<futures, yielded, pool_threads, starts, pool_result>>
    /\ UNCHANGED <<engine, not_pool>>

\* _handle_removed_items / the deleted keys of a delta, or it raises
main_deletions(ok) ==
    /\ main = "deletions"
    /\ main' = IF ok THEN "commit" ELSE "raised"
    /\ UNCHANGED <<futures, yielded, pool_threads, starts, pool_result>>
    /\ UNCHANGED <<engine, not_pool>>

\* record_full_sync / record_incremental_sync and record_template_version
main_commit ==
    /\ main = "commit"
    /\ main' = "done"
    /\ UNCHANGED <<futures, yielded, pool_threads, starts, pool_result>>
    /\ UNCHANGED <<engine, not_pool>>

NextPool ==
    \/ \E n \in 0..MaxItems, ok \in BOOLEAN : main_fetch(n, ok)
    \/ \E ok \in BOOLEAN : main_build_batch_data(ok)
    \/ main_submit
    \/ main_as_completed
    \/ \E w \in PoolWorkers : worker_start(w)
    \/ \E w \in PoolWorkers, outcome \in {"created", "skipped", "raised"} :
          worker_finish(w, outcome)
    \/ \E i \in ItemIds : main_future_result(i)
    \/ main_leave_pool
    \/ \E ok \in BOOLEAN : main_deletions(ok)
    \/ main_commit

SpecPool == PoolInit /\ [][NextPool]_vars


\* ---------------------------------------------------- _build_batch_data
\* One call of _build_batch_data on the raw lists the remote client
\* returned.  An attachment has a key, a parent and a content type, each of
\* which may be missing; attachment keys are unique in the library.  An
\* annotation is identified by its place in the raw list and names the
\* attachment it belongs to.
Missing == ""
AttachmentKeys == {"A1", "A2"}
ContentTypes == {"application/PDF", "text/html"}

\* str.lower() on the content types
lower(content_type) ==
    IF content_type = "application/PDF" THEN "application/pdf" ELSE content_type
\* "pdf" in str, on the lowered content types
contains_pdf(content_type) ==
    content_type \in {"application/pdf"}

RawAttachments ==
    [key : AttachmentKeys \cup {Missing}, parentItem : Keys \cup {Missing},
     contentType : ContentTypes]

AttachmentLists ==
    {l \in UNION {[1..n -> RawAttachments] : n \in 0..MaxAtt} :
       \A i, j \in 1..Len(l) :
          (i # j /\ l[i].key = l[j].key) => l[i].key = Missing}

AnnotationLists ==
    UNION {{[i \in 1..n |-> [id |-> i, parent_key |-> f[i]]] :
              f \in [1..n -> AttachmentKeys \cup {Missing}]} : n \in 0..MaxNotes}

\* dict[key] = value
put(dict, key, value) ==
    [x \in DOMAIN dict \cup {key} |-> IF x = key THEN value ELSE dict[x]]
\* dict.get(key)
get(dict, key) ==
    IF key \in DOMAIN dict THEN dict[key] ELSE Missing

\* "for attachment in all_attachments:", from the dicts built so far
RECURSIVE map_attachments(_, _, _)
map_attachments(attachments, attachment_to_parent, keys) ==
    IF attachments = <<>>
    THEN [attachment_to_parent |-> attachment_to_parent, attachment_keys |-> keys]
    ELSE LET attachment == Head(attachments)
             linked == /\ attachment.key # Missing
                       /\ attachment.parentItem # Missing
         IN map_attachments(
              Tail(attachments),
              IF linked
              THEN put(attachment_to_parent, attachment.key, attachment.parentItem)
              ELSE attachment_to_parent,
              IF linked /\ contains_pdf(lower(attachment.contentType))
              THEN put(keys, attachment.parentItem, attachment.key)
              ELSE keys)

\* mutant: an annotation is put at the front of its parent's list
RECURSIVE index_annotations_prepends(_, _, _)
index_annotations_prepends(annotations, attachment_to_parent, by_item) ==
    IF annotations = <<>> THEN by_item
    ELSE LET parent_item_key == get(attachment_to_parent, Head(annotations).parent_key)
         IN index_annotations_prepends(Tail(annotations), attachment_to_parent, IF parent_item_key # Missing THEN put(by_item, parent_item_key, <<Head(annotations)>> \o (IF parent_item_key \in DOMAIN by_item THEN by_item[parent_item_key] ELSE <<>>)) ELSE by_item)

\* "for annotation_data in all_annotations:", from the dict built so far
RECURSIVE index_annotations(_, _, _)
index_annotations(annotations, attachment_to_parent, by_item) ==
    IF annotations = <<>> THEN by_item
    ELSE LET annotation == Head(annotations)
             parent_item_key == get(attachment_to_parent, annotation.parent_key)
         IN index_annotations(
              Tail(annotations),
              attachment_to_parent,
              IF parent_item_key # Missing
              THEN put(by_item, parent_item_key,
                       Append(IF parent_item_key \in DOMAIN by_item
                              THEN by_item[parent_item_key]
                              ELSE <<>>,
                              annotation))
              ELSE by_item)

BatchInit ==
    /\ EngineIdle
    /\ LimiterNew(MaxRequests)
    /\ CliIdle
    /\ SanitizerIdle
    /\ DbIdle
    /\ PoolIdle
    /\ NotesIdle
    /\ all_attachments \in AttachmentLists
    /\ all_annotations \in AnnotationLists
    /\ built = FALSE
    /\ attachment_keys = EmptyDict
    /\ annotations_by_item = EmptyDict

\* _build_batch_data runs on the two lists and returns
build_batch ==
    /\ ~built
    /\ built' = TRUE
    /\ LET mapped == map_attachments(all_attachments, EmptyDict, EmptyDict)
       IN /\ attachment_keys' = mapped.attachment_keys
          /\ annotations_by_item' =
                index_annotations(all_annotations, mapped.attachment_to_parent,
                                  EmptyDict)
    /\ UNCHANGED <<all_attachments, all_annotations>>
    /\ UNCHANGED <<engine, not_batch>>

NextBatch ==
    build_batch

SpecBatch == BatchInit /\ [][NextBatch]_vars


\* ------------------------------------ one reconciliation and the free text
\* One record is reconciled, or one active row re-rendered, against a row
\* and artifacts in any state; an artifact carries the annotation markers
\* and the user's free text (NoNotes when it has no such section).  The
\* renderer puts the preserved notes it is given into the artifact.
Artifacts ==
    {NoArtifact} \cup [exists : {TRUE}, markers : 0..MaxAnn, notes : 0..MaxText]

NotesRows ==
    {NoRow} \cup
    {[status |-> st, citation_key |-> "ck1", zotero_version |-> v,
      item_json |-> [present |-> TRUE, ckey |-> "ck1", version |-> v]] :
        st \in {"active", "removed"}, v \in 0..1}

\* TemplateRenderer.extract_notes_section
extract_notes_section(existing_content) ==
    existing_content.notes

\* TemplateRenderer.render_item with the preserved notes
render_with_notes(annotations, preserved_notes) ==
    [exists |-> TRUE, markers |-> annotations.n, notes |-> preserved_notes]

NotesInit ==
    /\ EngineIdle
    /\ LimiterNew(MaxRequests)
    /\ CliIdle
    /\ SanitizerIdle
    /\ DbIdle
    /\ PoolIdle
    /\ BatchIdle
    /\ recon \in {r \in [mode : {"delta", "full", "rerender"},
                          existing_state : NotesRows,
                          item_data : [present : {TRUE},
                                       ckey : CKeys \cup {NoCitationKey},
                                       version : {1}],
                          annotations : {[n |-> n, rev |-> 0] : n \in 0..MaxAnn},
                          artifacts : [CKeys -> Artifacts]] :
                     r.mode = "rerender" => r.existing_state.status = "active"}
    /\ rendering = NotRendered

\* _sync_single_item_batch on the record, as far as the artifact goes
reconcile ==
    /\ recon.mode \in {"delta", "full"}
    /\ rendering.at = "new"
    /\ LET item == recon.item_data
           existing_state == recon.existing_state
           has_state == existing_state.status # "none"
           existing_content == IF has_state THEN recon.artifacts[item.ckey]
                               ELSE NoArtifact
       IN IF ~HasCitationKey(item)
          THEN rendering' = [NotRendered EXCEPT !.at = "done", !.outcome = "skipped"]
          ELSE IF unchanged_skip(existing_state, item, existing_content,
                                 recon.annotations, recon.mode = "full")
          THEN rendering' = [NotRendered EXCEPT !.at = "done", !.outcome = "unchanged"]
          ELSE LET is_update == has_state
                   preserved_notes ==
                       IF is_update /\ existing_content.exists
                       THEN extract_notes_section(existing_content)
                       ELSE NoNotes
               IN rendering' =
                    [at |-> "done",
                     outcome |-> IF is_update THEN "updated" ELSE "created",
                     rendered |-> TRUE,
                     preserved_notes |-> preserved_notes,
                     citation_key |-> item.ckey,
                     artifact |-> render_with_notes(recon.annotations,
                                                    preserved_notes)]
    /\ UNCHANGED recon
    /\ UNCHANGED <<engine, not_notes>>

\* _rerender_single_item on the row, as far as the artifact goes
rerender ==
    /\ recon.mode = "rerender"
    /\ rendering.at = "new"
    /\ LET item_state == recon.existing_state
           existing_content == recon.artifacts[item_state.citation_key]
           preserved_notes == IF existing_content.exists
                              THEN extract_notes_section(existing_content)
                              ELSE NoNotes
       IN rendering' =
            [at |-> "done", outcome |-> "updated", rendered |-> TRUE,
             preserved_notes |-> preserved_notes,
             citation_key |-> item_state.citation_key,
             artifact |-> render_with_notes(recon.annotations, preserved_notes)]
    /\ UNCHANGED recon
    /\ UNCHANGED <<engine, not_notes>>

NextNotes ==
    \/ reconcile
    \/ rerender

SpecNotes == NotesInit /\ [][NextNotes]_vars


\* ---------------------------------- one reconciliation on arbitrary inputs
\* A worker is given a record, its resolved annotations and the force flag
\* against a store and a file store in any state: the rows and artifacts of
\* earlier runs, artifacts edited or deleted by the user.
RowValues ==
    {NoRow} \cup
    {[status |-> st, citation_key |-> c, zotero_version |-> v,
      item_json |-> [present |-> TRUE, ckey |-> c, version |-> v]] :
        st \in {"active", "removed"}, c \in CKeys, v \in 0..MaxItemVersion}

FileValues ==
    {NoFile} \cup
    {[exists |-> TRUE, markers |-> a.n, annotations |-> a, version |-> 0,
      template |-> 1] : a \in AnnValues}

ItemValues ==
    [present : {TRUE}, ckey : CKeys \cup {NoCitationKey},
     version : 0..MaxItemVersion]

ItemInit ==
    /\ library_version = 0
    /\ remote_items = [k \in Keys |-> NoItem]
    /\ remote_annotations = [k \in Keys |-> NoAnn]
    /\ remote_deleted = [k \in Keys |-> 0]
    /\ template = [template_hash |-> 1, template_path |-> "built-in"]
    /\ sync_items \in {[k \in Keys |-> IF k = "K1" THEN r ELSE NoRow] :
                         r \in RowValues}
    /\ last_library_version = NoLibraryVersion
    /\ template_version = NoTemplateVersion
    /\ files \in [CKeys -> FileValues]
    /\ RunIdle
    /\ faults = 0
    /\ SharedIdle
    /\ AsideIdle

\* executor.submit(self._sync_single_item_batch, item_data, result,
\* batch_data, force_rerender) with a new SyncResult
submit(k, item_data, annotations, force) ==
    /\ pc = "idle"
    /\ pc' = "items"
    /\ mode' = IF force THEN "full" ELSE "delta"
    /\ items' = [kk \in Keys |-> IF kk = k THEN item_data ELSE NoItem]
    /\ batch_data' = [kk \in Keys |-> IF kk = k THEN annotations ELSE NoAnn]
    /\ force_rerender' = force
    /\ pending' = {k}
    /\ result' = NewSyncResult
    /\ rendered' = {}
    /\ before' = [sync_items |-> sync_items, files |-> files,
                   last_library_version |-> last_library_version,
                   template_version |-> template_version]
    /\ UNCHANGED <<aside, remote, template, shared, faults, failed, store, files, entry, rule, prev_rule,
                   prev_equal, last_version, current_version,
                   template_changed, current_hash, removed_keys,
                   removed_count, calls, handled, marked>>

\* the same record and annotations given to a worker once more, not forced,
\* on the same SyncResult
resubmit(k) ==
    /\ pc = "items"
    /\ pending = {}
    /\ items[k].present
    /\ result.total_items_processed = 1
    /\ mode' = "delta"
    /\ force_rerender' = FALSE
    /\ pending' = {k}
    /\ UNCHANGED <<aside, remote, template, shared, faults, failed, store, files, pc, entry, rule, prev_rule,
                   prev_equal, last_version, current_version,
                   template_changed, current_hash, items, batch_data,
                   removed_keys, removed_count, result, calls, rendered,
                   handled, marked, before>>

ItemNext ==
    \/ \E item_data \in ItemValues, annotations \in AnnValues, force \in BOOLEAN :
          submit("K1", item_data, annotations, force)
    \/ resubmit("K1")
    \/ \E k \in Keys : sync_item(k)

SpecItem == ItemInit /\ [][ItemNext]_vars


\* ================================================================ claims
\* the step in which a worker reconciles record k
Reconciles(k) ==
    /\ pc = "items"
    /\ mode \in {"full", "delta"}
    /\ k \in pending
    /\ pending' = pending \ {k}

\* the row sync_single_item_batch upserts for record k
UpsertedRow(k) ==
    [status |-> "active", citation_key |-> items[k].ckey,
     zotero_version |-> items[k].version, item_json |-> items[k]]

\* a state row exists, the record parses, and it comes at the stored
\* version (hence with the stored citation key, which is derived from the
\* payload) while its artifact can be read
SameVersionWithArtifact(k) ==
    /\ sync_items[k].status # "none"
    /\ HasCitationKey(items[k])
    /\ items[k].ckey = sync_items[k].citation_key
    /\ items[k].version = sync_items[k].zotero_version
    /\ files[items[k].ckey].exists

\* C2 (skip correctness): a reconciliation that is not forced, of a record
\* with a state row, at the stored version, whose annotations are as many as
\* the annotation markers of the artifact written before, renders nothing,
\* writes no artifact and leaves the rows as they are; the same
\* reconciliation forced renders the record, writes its artifact and upserts
\* its row.
C2_SkipCorrectness ==
    [][\A k \in Keys :
        (/\ Reconciles(k)
         /\ SameVersionWithArtifact(k)
         /\ batch_data[k].n = count_markers(files[items[k].ckey]))
        => IF ~force_rerender
           THEN /\ rendered' = rendered
                /\ files' = files
                /\ sync_items' = sync_items
           ELSE /\ k \in rendered'
                /\ files'[items[k].ckey] = render_item(items[k], batch_data[k])
                /\ sync_items'[k] = UpsertedRow(k)]_vars

\* C2 witness: an unforced reconciliation of a record at its stored version
\* with one annotation and one marker has run and has rendered nothing.
C2_Witness ==
    /\ pc = "items"
    /\ pending = {}
    /\ ~force_rerender
    /\ result.total_items_processed = 1
    /\ before.sync_items["K1"].status = "active"
    /\ items["K1"].ckey = before.sync_items["K1"].citation_key
    /\ items["K1"].version = before.sync_items["K1"].zotero_version
    /\ before.files[items["K1"].ckey].exists
    /\ before.files[items["K1"].ckey].markers = 1
    /\ batch_data["K1"].n = 1
    /\ rendered = {}
    /\ files = before.files
    /\ sync_items = before.sync_items

\* C3 (version advance triggers update): reconciling a record that parses and
\* comes one version above its state row renders it, upserts the row at the
\* incoming version and adds exactly one to items_updated and nothing to
\* items_created; reconciling the same record with the same annotations once
\* more, not forced, changes neither the counter nor the row nor the artifact.
C3_VersionAdvance ==
    [][\A k \in Keys :
        /\ (/\ Reconciles(k)
            /\ sync_items[k].status # "none"
            /\ HasCitationKey(items[k])
            /\ items[k].version = sync_items[k].zotero_version + 1)
           => /\ k \in rendered'
              /\ sync_items'[k] = UpsertedRow(k)
              /\ result'.items_updated = result.items_updated + 1
              /\ result'.items_created = result.items_created
        /\ (/\ Reconciles(k)
            /\ result.total_items_processed = 1
            /\ ~force_rerender
            /\ before.sync_items[k].status # "none"
            /\ HasCitationKey(items[k])
            /\ items[k].version = before.sync_items[k].zotero_version + 1)
           => /\ result'.items_updated = result.items_updated
              /\ result'.items_created = result.items_created
              /\ rendered' = rendered
              /\ sync_items' = sync_items
              /\ files' = files]_vars

\* C3 witness: the record came one version above its row, was updated once,
\* and has been reconciled a second time.
C3_Witness ==
    /\ pc = "items"
    /\ pending = {}
    /\ result.total_items_processed = 2
    /\ before.sync_items["K1"].status = "active"
    /\ items["K1"].version = before.sync_items["K1"].zotero_version + 1
    /\ sync_items["K1"].zotero_version = items["K1"].version
    /\ result.items_updated = 1
    /\ result.items_created = 0

\* C4 (annotation count change triggers update): with a state row, the stored
\* version and a readable artifact, an unforced reconciliation re-renders the
\* record and counts it as updated when the number of annotations differs
\* from the number of markers in the artifact, and skips it when the numbers
\* are equal although the annotations are not those the artifact was
\* rendered from.
C4_AnnotationCount ==
    [][\A k \in Keys :
        (/\ Reconciles(k)
         /\ ~force_rerender
         /\ SameVersionWithArtifact(k))
        => IF batch_data[k].n # count_markers(files[items[k].ckey])
           THEN /\ k \in rendered'
                /\ files'[items[k].ckey] = render_item(items[k], batch_data[k])
                /\ result'.items_updated = result.items_updated + 1
                /\ result'.items_created = result.items_created
           ELSE /\ rendered' = rendered
                /\ files' = files
                /\ sync_items' = sync_items
                /\ result'.items_updated = result.items_updated]_vars

\* C4 witness: one marker, no annotation left, same version: updated.
C4_Witness ==
    /\ pc = "items"
    /\ pending = {}
    /\ ~force_rerender
    /\ result.total_items_processed = 1
    /\ before.sync_items["K1"].status = "active"
    /\ items["K1"].ckey = before.sync_items["K1"].citation_key
    /\ items["K1"].version = before.sync_items["K1"].zotero_version
    /\ before.files[items["K1"].ckey].exists
    /\ before.files[items["K1"].ckey].markers = 1
    /\ batch_data["K1"].n = 0
    /\ result.items_updated = 1
    /\ files[items["K1"].ckey].markers = 0


\* ------------------------------------------------------- run-level claims
FetchCalls ==
    {"get_all_items", "get_items_since_version", "get_deleted_items",
     "get_all_annotations", "get_all_attachments", "get_active_items", "item"}

ActiveKeys(rows) ==
    {k \in Keys : rows[k].status = "active"}

\* an Incremental Sync that found a recorded library version
IncrementalWithVersion ==
    /\ entry = "incremental"
    /\ pc # "idle"
    /\ last_version # NoLibraryVersion

\* C1 (idempotence): when an Incremental Sync returns that was started right
\* after another Incremental Sync returned (delegated Full Sync, no-op or
\* delta), with no change of the remote library or of the template in
\* between, its result has items_created = items_updated = items_removed = 0.
C1_Idempotence ==
    (pc = "done" /\ entry = "incremental" /\ prev_rule \in {1, 3, 4, 5})
    => /\ result.items_created = 0
       /\ result.items_updated = 0
       /\ result.items_removed = 0

\* C1 witness: the run before was a delta that removed a tracked key, and
\* the second run has returned.
C1_Witness ==
    /\ pc = "done"
    /\ entry = "incremental"
    /\ prev_rule = 5
    /\ \E k \in Keys : sync_items[k].status = "removed"
    /\ result = NewSyncResult

\* C5 as stated: a changed template makes the Incremental Sync re-render
\* every active row and record the new fingerprint, and the Incremental Sync
\* run right after it, with no further change, is a no-op: its result is
\* empty, it renders nothing and leaves rows and artifacts as they were.
C5_Original ==
    /\ (IncrementalWithVersion /\ template_changed) => rule = 2
    /\ (pc = "done" /\ rule = 2)
       => /\ rendered = ActiveKeys(before.sync_items)
          /\ template_version = template
    /\ (pc = "done" /\ entry = "incremental" /\ prev_rule = 2)
       => /\ result = NewSyncResult
          /\ rendered = {}
          /\ sync_items = before.sync_items
          /\ files = before.files

\* C5 (amended): a changed template makes the Incremental Sync re-render
\* every active row and record the new fingerprint; the Incremental Sync run
\* right after it, with no further change, is a no-op if the re-render run
\* read a remote library version equal to the recorded one, and otherwise
\* takes the large-gap or the delta path, because the Full Re-render does
\* not record the library version.
C5_TemplateChange ==
    /\ (IncrementalWithVersion /\ template_changed) => rule = 2
    /\ (pc = "done" /\ rule = 2)
       => /\ rendered = ActiveKeys(before.sync_items)
          /\ template_version = template
    /\ (pc = "done" /\ entry = "incremental" /\ prev_rule = 2)
       => IF prev_equal
          THEN /\ rule = 3
               /\ result = NewSyncResult
               /\ rendered = {}
               /\ calls \cap FetchCalls = {}
               /\ sync_items = before.sync_items
               /\ files = before.files
               /\ last_library_version = last_version
               /\ template_version = template
          ELSE rule \in {4, 5}

\* C5 witness: a re-render of a tracked row was followed by a no-op run.
C5_Witness ==
    /\ pc = "done"
    /\ entry = "incremental"
    /\ prev_rule = 2
    /\ prev_equal
    /\ rule = 3
    /\ template_version.template_hash = 2
    /\ \E k \in Keys : /\ sync_items[k].status = "active"
                       /\ files[sync_items[k].citation_key].template = 2


C7_LargeGapFallback ==
    (IncrementalWithVersion /\ ~template_changed)
    => /\ current_version - last_version > 1000
          => /\ "get_items_since_version" \notin calls
             /\ pc # "fetch" => "get_all_items" \in calls
       /\ (current_version - last_version > 0
           /\ current_version - last_version <= 1000)
          => /\ "get_all_items" \notin calls
             /\ pc # "fetch" => "get_items_since_version" \in calls

\* C7 witness: a run with a gap of exactly 1000 has fetched the delta, and
\* the store holds a row from the run before.
C7_Witness ==
    /\ IncrementalWithVersion
    /\ ~template_changed
    /\ current_version - last_version = 1000
    /\ pc = "done"
    /\ "get_items_since_version" \in calls
    /\ \E k \in Keys : sync_items[k].status = "active"

\* C8 (first run delegates): an Incremental Sync that finds no recorded
\* library version runs a Full Sync: it reads neither the stored Template
\* Version nor the delta, fetches the whole item set, reconciles every
\* fetched record with the force flag set, so that every record with a
\* citation key is rendered, and records the library version it read and the
\* current template.
C8_FirstRunDelegates ==
    (entry = "incremental" /\ pc # "idle" /\ last_version = NoLibraryVersion)
    => /\ mode = "full"
       /\ force_rerender
       /\ calls \cap {"get_template_version", "has_template_changed",
                      "get_items_since_version", "get_deleted_items"} = {}
       /\ pc # "fetch"
          => /\ "get_all_items" \in calls
             /\ items = remote_items
       /\ pc \in {"deletions", "done"}
          => /\ rendered = {k \in Keys : items[k].present /\ HasCitationKey(items[k])}
             /\ result.total_items_processed
                  = Cardinality({k \in Keys : items[k].present})
       /\ pc = "done"
          => /\ last_library_version = current_version
             /\ current_version = library_version
             /\ template_version = template

\* C8 witness: the delegated Full Sync has returned after rendering a record.
C8_Witness ==
    /\ entry = "incremental"
    /\ pc = "done"
    /\ last_version = NoLibraryVersion
    /\ rendered # {}
    /\ result.items_created >= 1


\* C9 (no-op on equal version): an Incremental Sync that finds a recorded
\* library version equal to the remote one and an unchanged template returns
\* at once: all counters zero and no error, no fetch of items, annotations or
\* attachments, nothing rendered, and the rows, the recorded library
\* version, the Template Version and the artifacts as they were.
C9_NoOp ==
    (IncrementalWithVersion /\ ~template_changed
     /\ current_version = last_version)
    => /\ pc = "done"
       /\ result = NewSyncResult
       /\ calls \cap FetchCalls = {}
       /\ rendered = {}
       /\ sync_items = before.sync_items
       /\ last_library_version = before.last_library_version
       /\ template_version = before.template_version
       /\ files = before.files

\* C9 witness: a no-op run over a store that tracks a record with an artifact.
C9_Witness ==
    /\ IncrementalWithVersion
    /\ ~template_changed
    /\ current_version = last_version
    /\ pc = "done"
    /\ library_version > 0
    /\ \E k \in Keys : /\ sync_items[k].status = "active"
                       /\ files[sync_items[k].citation_key].exists

\* the decision table of Incremental Sync on the store and the remote
TableMatches(i) ==
    CASE i = 1 -> last_library_version = NoLibraryVersion
      [] i = 2 -> /\ template_version # NoTemplateVersion
                  /\ \/ template_version.template_hash # template.template_hash
                     \/ template_version.template_path # template.template_path
      [] i = 3 -> library_version = last_library_version
      [] i = 4 -> library_version - last_library_version > 1000
      [] i = 5 -> TRUE

TableMode(i) ==
    CASE i \in {1, 4} -> "full"
      [] i = 2 -> "rerender"
      [] i = 3 -> "noop"
      [] i = 5 -> "delta"

\* the step in which Incremental Sync selects its mode
SelectsMode ==
    /\ pc \in {"idle", "done"}
    /\ pc' # "idle"
    /\ entry' = "incremental"

\* C10 (decision-table precedence): Incremental Sync takes the first rule of
\* (1) no recorded version, (2) template changed, (3) version equal,
\* (4) gap > 1000, (5) delta that matches; a changed template with an equal
\* library version, or with a gap above 1000, runs the Full Re-render.
C10_Precedence ==
    [][SelectsMode
       => /\ \E i \in 1..5 :
               /\ TableMatches(i)
               /\ \A j \in 1..(i - 1) : ~TableMatches(j)
               /\ rule' = i
               /\ mode' = TableMode(i)
          /\ (~TableMatches(1) /\ TableMatches(2)
              /\ (TableMatches(3) \/ TableMatches(4)))
             => mode' = "rerender"]_vars

\* C10 witness: the template changed and the gap is above 1000; the run
\* re-renders.
C10_Witness ==
    /\ IncrementalWithVersion
    /\ template_changed
    /\ current_version - last_version > 1000
    /\ mode = "rerender"
    /\ pc = "done"
    /\ rendered # {}


\* keys whose row was marked removed in this run
MarkedKeys ==
    {k \in Keys : marked[k] > 0}

\* C11 (Full Sync forces re-render): in a Full Sync the reconciliation of a
\* fetched record that has a citation key renders it, writes its artifact
\* and upserts its row, and counts it as created or updated, whatever row
\* and artifact exist; the unchanged-skip path is not taken.
C11_FullSyncForces ==
    [][\A k \in Keys :
         (Reconciles(k) /\ mode = "full" /\ HasCitationKey(items[k]))
         => /\ force_rerender
            /\ k \notin rendered /\ k \in rendered'
            /\ files'[items[k].ckey] = render_item(items[k], batch_data[k])
            /\ sync_items'[k] = UpsertedRow(k)
            /\ result'.items_created + result'.items_updated
                 = result.items_created + result.items_updated + 1]_vars

\* C11 witness: a Full Sync rendered a record whose row had the same
\* version and citation key and whose artifact had as many markers as the
\* record has annotations.
C11_Witness ==
    /\ mode = "full"
    /\ \E k \in rendered :
         /\ before.sync_items[k].status = "active"
         /\ before.sync_items[k].zotero_version = items[k].version
         /\ before.sync_items[k].citation_key = items[k].ckey
         /\ before.files[items[k].ckey].exists
         /\ before.files[items[k].ckey].markers = batch_data[k].n

\* C12 (Full Sync deletion set and commit): when a Full Sync has returned,
\* the keys marked removed are exactly those tracked as active after the
\* item pass that are not in the remote item set, each marked once; no key of
\* the remote set is marked; items_removed is their number; the store holds
\* the library version read in the run and the current template.
C12_FullSyncDeletions ==
    (pc = "done" /\ mode = "full")
    => /\ MarkedKeys = (ActiveKeys(before.sync_items) \cup rendered)
                          \ {k \in Keys : remote_items[k].present}
       /\ \A k \in Keys : marked[k] <= 1 /\ handled[k] = marked[k]
       /\ \A k \in MarkedKeys : sync_items[k].status = "removed"
       /\ \A k \in Keys : remote_items[k].present => marked[k] = 0
       /\ result.items_removed = Cardinality(MarkedKeys)
       /\ last_library_version = current_version
       /\ current_version = library_version
       /\ template_version = template

\* C12 witness: a Full Sync returned that removed one key and kept another.
C12_Witness ==
    /\ pc = "done"
    /\ mode = "full"
    /\ MarkedKeys # {}
    /\ \E k \in Keys : remote_items[k].present /\ sync_items[k].status = "active"

\* C13 (delta path): under rule 5 only the records modified since the
\* recorded version are fetched, each is reconciled without force, the keys
\* reported deleted since the recorded version are reconciled after the item
\* pass, the store's library version and Template Version are written only
\* after that, and on return the recorded version is the one read in the run.
C13_DeltaPath ==
    /\ [](mode = "delta"
          => /\ rule = 5
             /\ ~force_rerender
             /\ "get_all_items" \notin calls
             /\ pc \in {"items", "deletions", "done"}
                => /\ "get_items_since_version" \in calls
                   /\ \A k \in Keys :
                        items[k].present
                        <=> (remote_items[k].present
                             /\ remote_items[k].version > last_version)
                   /\ \A k \in Keys : items[k].present => items[k] = remote_items[k]
             /\ pc \in {"deletions", "done"} => pending = {}
             /\ pc \in {"fetch", "items", "deletions"}
                => /\ last_library_version = before.last_library_version
                   /\ template_version = before.template_version
             /\ pc = "done"
                => /\ removed_keys = {}
                   /\ last_library_version = current_version
                   /\ template_version = template)
    /\ [][(mode = "delta" /\ pc = "items" /\ pc' = "deletions")
          => removed_keys' = {k \in Keys : remote_deleted[k] > last_version}]_vars
    /\ [][(mode = "delta" /\ pc \in {"fetch", "items", "deletions"}
           /\ (marked' # marked \/ handled' # handled))
          => pc = "deletions" /\ pending = {}]_vars

\* C13 witness: a delta run returned that reconciled a modified record and a
\* deleted key.
C13_Witness ==
    /\ mode = "delta"
    /\ pc = "done"
    /\ rendered # {}
    /\ MarkedKeys # {}
    /\ last_version < current_version


\* C16 as stated (deletion of an untracked key is a no-op): a key without a
\* row is neither handed to the file layer nor marked removed, no error is
\* added for it, and when a Full Sync or delta run has returned
\* items_removed is the number of keys whose row was marked removed in it.
C16_Original ==
    /\ \A k \in Keys :
         before.sync_items[k].status = "none"
         => handled[k] = 0 /\ marked[k] = 0
    /\ (pc = "done" /\ mode \in {"full", "delta"})
       => /\ result.items_removed = Cardinality(MarkedKeys)
          /\ result.errors = <<>>

\* C17 (soft delete): the store has one row per external key; a row that
\* exists is never deleted; a row goes from active to removed only in the
\* deletion reconciliation of its key and from removed to active only in a
\* reconciliation of its key that upserts it.
C17_SoftDelete ==
    /\ [](/\ DOMAIN sync_items = Keys
          /\ \A k \in Keys : sync_items[k].status \in {"none", "active", "removed"})
    /\ [][\A k \in Keys :
            /\ sync_items[k].status # "none" => sync_items'[k].status # "none"
            /\ (sync_items[k].status = "active"
                /\ sync_items'[k].status = "removed")
               => /\ pc = "deletions"
                  /\ k \in removed_keys
                  /\ marked'[k] = marked[k] + 1
            /\ (sync_items[k].status = "removed"
                /\ sync_items'[k].status = "active")
               => /\ Reconciles(k)
                  /\ k \in rendered'
                  /\ sync_items'[k] = UpsertedRow(k)]_vars

\* C17 witness: a row that was removed is active again after a run.
C17_Witness ==
    /\ pc = "done"
    /\ \E k \in Keys : /\ before.sync_items[k].status = "removed"
                       /\ sync_items[k].status = "active"

\* C18 as stated (one artifact per record): when a run has returned, every
\* active row has its artifact under the row's citation key, and every
\* artifact of the file store is that of an active row.
C18_Original ==
    pc = "done"
    => /\ \A k \in Keys :
            sync_items[k].status = "active"
            => files[sync_items[k].citation_key].exists
       /\ \A c \in CKeys :
            files[c].exists
            => \E k \in Keys : /\ sync_items[k].status = "active"
                               /\ sync_items[k].citation_key = c


\* ---------------------------------------------------------------- C14
\* the records of the pass
Fetched ==
    {k \in Keys : items[k].present}

\* no other record of the pass resolves to the citation key of record k
AloneOnArtifact(k) ==
    \A j \in Fetched \ {k} : items[j].ckey # items[k].ckey

\* the tasks that have returned without raising
Returned ==
    Fetched \ (pending \cup failed)

\* the skip decision of record k on the store and artifacts of the run's start
NominalSkip(k) ==
    unchanged_skip(before.sync_items[k], items[k], before.files[items[k].ckey],
                   batch_data[k], force_rerender)

\* the step in which the task of key k raises
TaskRaises(k) ==
    /\ pc = "items"
    /\ k \in pending
    /\ k \notin pending'
    /\ k \in failed'

\* rows of the run's start that the Full Re-render takes
ActiveBefore ==
    {k \in Keys : before.sync_items[k].status = "active"}

\* C14: Per-item failure isolation.  In every fan-out a task that raises
\* adds exactly one error and leaves the run in its item phase; the errors
\* are one per failed task; every task is counted as processed; a task that
\* returned has reconciled its record as on the store of the run's start
\* (row, artifact, created/updated counters), whatever other tasks raised;
\* and a run that ends has committed its versions.
C14_FailureIsolation ==
    /\ [][\A k \in Keys :
            TaskRaises(k) =>
              /\ Len(result'.errors) = Len(result.errors) + 1
              /\ pc' = "items"
              /\ sync_items' = sync_items
              /\ pending' = pending \ {k}]_vars
    /\ [](pc \in {"items", "deletions", "done"} =>
            /\ Len(result.errors) = Cardinality(failed)
            /\ \A k \in failed :
                 Cardinality({i \in 1..Len(result.errors) :
                                result.errors[i] = k}) = 1)
    /\ [](pc \in {"items", "deletions", "done"} /\ mode \in {"full", "delta"} =>
            /\ result.total_items_processed = Cardinality(Fetched \ pending)
            /\ \A k \in Returned :
                 IF ~HasCitationKey(items[k]) \/ ~AloneOnArtifact(k)
                 THEN TRUE
                 ELSE IF NominalSkip(k)
                 THEN sync_items[k] = before.sync_items[k]
                 ELSE /\ sync_items[k] = UpsertedRow(k)
                      /\ pc = "items" =>
                           files[items[k].ckey] =
                             render_item(items[k], batch_data[k])
            /\ (\A k \in Fetched : AloneOnArtifact(k)) =>
                 /\ result.items_created =
                      Cardinality({k \in Returned :
                         /\ HasCitationKey(items[k])
                         /\ ~NominalSkip(k)
                         /\ before.sync_items[k].status = "none"})
                 /\ result.items_updated =
                      Cardinality({k \in Returned :
                         /\ HasCitationKey(items[k])
                         /\ ~NominalSkip(k)
                         /\ before.sync_items[k].status # "none"}))
    /\ [](pc \in {"items", "done"} /\ mode = "rerender" =>
            /\ result.items_updated =
                 Cardinality(ActiveBefore \ (pending \cup failed))
            /\ \A k \in ActiveBefore \ (pending \cup failed) :
                 /\ sync_items[k] = before.sync_items[k]
                 /\ (\A j \in ActiveBefore \ {k} :
                       before.sync_items[j].citation_key
                         # before.sync_items[k].citation_key) =>
                      files[sync_items[k].citation_key] =
                        render_item(sync_items[k].item_json, batch_data[k]))
    /\ [](pc = "done" /\ mode \in {"full", "delta"} =>
            /\ last_library_version = current_version
            /\ template_version = template)
    /\ [](pc = "done" /\ mode = "rerender" => template_version = current_hash)

\* a run that ended after one task raised and another one created its record
C14_Witness ==
    /\ pc = "done"
    /\ failed # {}
    /\ result.items_created = 1
    /\ Len(result.errors) = 1
    /\ last_library_version = current_version
    /\ \E k \in Returned : sync_items[k] = UpsertedRow(k)


\* ---------------------------------------------------------------- C15
\* C15: Run-level failure.  When reading the library version, the fetch, the
\* batch prefetch or deletion reconciliation raises, the run ends raised
\* with the recorded library version and Template Version as they were when
\* it began; the raising step changes no row, and the rows the workers had
\* upserted before it stay upserted.
C15_RunLevelFailure ==
    /\ [](pc = "raised" =>
            /\ last_library_version = before.last_library_version
            /\ template_version = before.template_version)
    /\ [][pc' = "raised" /\ faults' = faults + 1 =>
            /\ sync_items' = sync_items
            /\ last_library_version' = last_library_version
            /\ template_version' = template_version]_vars
    /\ [](pc = "raised" /\ mode \in {"full", "delta"} =>
            \A k \in rendered \ failed : sync_items[k] = UpsertedRow(k))

\* deletion reconciliation raised after a worker had upserted a new row, in
\* a run that had read a library version other than the recorded one
C15_Witness ==
    /\ pc = "raised"
    /\ mode \in {"full", "delta"}
    /\ pending = {}
    /\ current_version # last_library_version
    /\ \E k \in rendered \ failed :
         /\ sync_items[k] = UpsertedRow(k)
         /\ sync_items[k] # before.sync_items[k]


\* ---------------------------------------------------------------- C19
\* the threads inside the lock of the SyncResult
InsideLock ==
    {t \in Threads : threads[t].at \in {"locked", "loaded", "stored"}}

\* C19: Exact totals under concurrency.  At most one thread is inside a
\* method's locked section; and whenever every call on the shared SyncResult
\* has returned, each counter is the number of calls of its method that
\* returned, annotations_synced is the sum of the amounts given, and errors
\* holds every added string exactly once.
C19_ExactTotals ==
    /\ Cardinality(InsideLock) <= 1
    /\ (\A t \in Threads : threads[t].at = "out") =>
         /\ result.total_items_processed = tally.total_items_processed
         /\ result.items_created = tally.items_created
         /\ result.items_updated = tally.items_updated
         /\ result.items_skipped = tally.items_skipped
         /\ result.annotations_synced = tally.annotations_synced
         /\ Len(result.errors) = Cardinality(tally.errors)
         /\ {result.errors[i] : i \in 1..Len(result.errors)} = tally.errors

\* every call has returned, two of them incremented the same counter and
\* one added an error
C19_Witness ==
    /\ \A t \in Threads : threads[t].at = "out"
    /\ tally.calls = MaxCalls
    /\ result.total_items_processed >= 2
    /\ Len(result.errors) = 1


\* ---------------------------------------------------------------- C20
\* the records of the pass that resolve to a citation key have pairwise
\* distinct ones
DistinctCitationKeys ==
    \A k \in Fetched : HasCitationKey(items[k]) => AloneOnArtifact(k)

\* the records of the pass that are rendered, decided on the run's start
NominalRendered ==
    {k \in Fetched : HasCitationKey(items[k]) /\ ~NominalSkip(k)}

ExpectedRow(k) ==
    IF k \in NominalRendered THEN UpsertedRow(k) ELSE before.sync_items[k]

ExpectedFile(c) ==
    IF \E k \in NominalRendered : items[k].ckey = c
    THEN LET k == CHOOSE k \in NominalRendered : items[k].ckey = c
         IN render_item(items[k], batch_data[k])
    ELSE before.files[c]

ExpectedAnnotations(S) ==
    IF S = {} THEN 0
    ELSE IF S = {"K1"} THEN batch_data["K1"].n
    ELSE IF S = {"K2"} THEN batch_data["K2"].n
    ELSE batch_data["K1"].n + batch_data["K2"].n

ExpectedResult ==
    [total_items_processed |-> Cardinality(Fetched),
     items_created |->
        Cardinality({k \in NominalRendered : before.sync_items[k].status = "none"}),
     items_updated |->
        Cardinality({k \in NominalRendered : before.sync_items[k].status # "none"}),
     items_removed |-> 0,
     items_skipped |-> Cardinality({k \in Fetched : ~HasCitationKey(items[k])}),
     annotations_synced |->
        ExpectedAnnotations({k \in Fetched : HasCitationKey(items[k])}),
     errors |-> <<>>]

\* C20: Dispatch-order independence.  When every task of a pass over
\* records with pairwise distinct external keys and citation keys has
\* ended, the rows, the artifacts and the counters are the ones determined
\* by the store, the artifacts and the fetched records of the run's start,
\* whatever the order and the interleaving of the tasks' steps was.
C20_OrderIndependence ==
    (pc = "items" /\ pending = {} /\ DistinctCitationKeys) =>
      /\ sync_items = [k \in Keys |-> ExpectedRow(k)]
      /\ files = [c \in CKeys |-> ExpectedFile(c)]
      /\ result = ExpectedResult

\* both tasks have ended: one created its record, the other updated its own
C20_Witness ==
    /\ pc = "items"
    /\ pending = {}
    /\ DistinctCitationKeys
    /\ \A k \in Keys : tasks[k].at = "done"
    /\ rendered = Keys
    /\ result.items_created = 1
    /\ result.items_updated = 1


\* ---------------------------------------------------------------- C21
\* the entries of the queue less than window_seconds old
InWindow ==
    {i \in 1..Len(requests) : requests[i] > clock - WINDOW}

\* C21: Rate limiter bound.  In every window of window_seconds (the times
\* after t - window_seconds up to t; an acquisition exactly window_seconds
\* old is not counted) no more acquisitions are recorded than the effective
\* capacity; and when no caller is inside acquire() the queue holds no more
\* entries of the current window than that.
C21_Original ==
    /\ \A t \in 0..MaxTime : GrantedIn(t - WINDOW + 1, t) <= max_requests
    /\ limiter_lock = 0 => Cardinality(InWindow) <= max_requests


C23_NoCitationKey ==
    /\ [](\A k \in Keys :
            ~HasCitationKey(items[k]) =>
              /\ tasks[k].at \in {"new", "done"}
              /\ tasks[k].existing_state = NoRow
              /\ tasks[k].existing_content = NoFile
              /\ k \notin rendered
              /\ sync_items[k] = before.sync_items[k])
    /\ [][\A k \in Keys :
            (~HasCitationKey(items[k]) /\ tasks[k].at = "new"
               /\ tasks'[k].at # "new") =>
              /\ tasks'[k].at = "done"
              /\ k \notin pending'
              /\ result' =
                   [result EXCEPT !.total_items_processed = @ + 1,
                                  !.items_skipped = @ + 1]
              /\ sync_items' = sync_items
              /\ files' = files
              /\ rendered' = rendered]_vars

\* a record without a citation key has been excluded while the other record
\* of the pass was rendered
C23_Witness ==
    /\ pc = "items"
    /\ \E k \in Keys :
         /\ ~HasCitationKey(items[k])
         /\ tasks[k].at = "done"
         /\ before.sync_items[k] # NoRow
    /\ result.items_skipped = 1
    /\ result.total_items_processed = 2
    /\ rendered # {}


\* ---------------------------------------------------------------- C24
\* the remote calls that return item content
ItemContentCalls ==
    {"get_all_items", "get_items_since_version", "item"}

Printed(line) ==
    \E i \in 1..Len(output) : output[i] = line

\* C25: Commands need a configuration.  With no configuration file, no sync
\* engine is created, no sync method is called, the connection is not tested
\* and the State Store is not opened; sync ends having printed only the
\* not-configured error, with a non-zero exit status, and status ends having
\* printed that it is not configured, with exit status 0.
C25_NeedsConfiguration ==
    config_file = "none" =>
      /\ ~engine_created
      /\ sync_called = "none"
      /\ ~connection_tested
      /\ ~store_opened
      /\ cli_pc \in {"shell", "sync", "status", "exited"}
      /\ (cli_pc = "exited" /\ command.name = "sync")
         => /\ output = <<NOT_CONFIGURED_ERROR>>
            /\ exit_code \notin {0, NoExit}
      /\ (cli_pc = "exited" /\ command.name = "status")
         => /\ Printed(NOT_CONFIGURED)
            /\ ~Printed("Connection:")
            /\ ~Printed("Sync Statistics:")
            /\ exit_code = 0

\* sync has ended without a configuration file, in an environment where the
\* engine would have run
C25_Witness ==
    /\ config_file = "none"
    /\ command.name = "sync"
    /\ cli_pc = "exited"
    /\ exit_code = 1
    /\ db_file = "good"
    /\ connection


\* ---------------------------------------------------------------- C26
\* a string inside one pair of matching quotes
HasQuotePair(str) ==
    /\ Len(str) >= 2
    /\ str[1] \in Quotes
    /\ str[Len(str)] = str[1]

\* strip, remove one pair of matching surrounding quotes if present, strip
StripUnquoteStrip(str) ==
    strip(IF HasQuotePair(strip(str)) THEN inner(strip(str)) ELSE strip(str))

\* C26: sanitize_path returns, for every input string, the input with the
\* surrounding whitespace stripped, then one pair of matching surrounding
\* quotes removed if present, then the surrounding whitespace stripped
\* again; a path with no surrounding whitespace or quotes is returned
\* unchanged.
C26_Original ==
    sanitized.returned =>
      /\ sanitized.value = StripUnquoteStrip(path_str)
      /\ (path_str # <<>>
            /\ Head(path_str) \notin Whitespace \cup Quotes
            /\ path_str[Len(path_str)] \notin Whitespace \cup Quotes)
         => sanitized.value = path_str


\* ---------------------------------------------------------------- C27
\* the job has read the row of its key and has not yet written it or returned
InSequence(j) ==
    jobs[j].at \in {"read", "decided", "written", "writing"}

\* every job has returned
JobsDone ==
    \A j \in Jobs : jobs[j].at \in {"none", "done"}

\* C27: Read-decide-write atomicity per key.  Two workers of one pass are
\* never both between their read and their write of the row of the same
\* external key, and at the end of the pass no key was counted as created
\* more than once.
C27_Original ==
    /\ \A i, j \in Jobs :
         (i # j /\ jobs[i].key # NoKey /\ jobs[i].key = jobs[j].key)
           => ~(InSequence(i) /\ InSequence(j))
    /\ (JobsDone /\ mode # "rerender")
       => result.items_created <=
            Cardinality({k \in Keys : /\ before.sync_items[k].status = "none"
                                      /\ sync_items[k].status # "none"})

\* ---------------------------------------------------------------- C28
\* the positions inside a "with self._db_lock:" block
StoreOperations ==
    {"reading", "writing", "selecting"}

\* C28: Store lock.  A job is inside a State Store read or write exactly
\* when it holds the store lock, so at most one job is; the rows change and
\* are read only in a step of the job holding the lock; and the job that
\* reads an artifact, renders or writes an artifact does not hold the lock
\* before or after that step.
C28_StoreLock ==
    /\ [](\A j \in Jobs : jobs[j].at \in StoreOperations <=> db_lock = j)
    /\ [](Cardinality({j \in Jobs : jobs[j].at \in StoreOperations}) <= 1)
    /\ [][\A j \in Jobs :
            (\/ jobs'[j].existing_state # jobs[j].existing_state
             \/ (jobs'[j] # jobs[j] /\ sync_items' # sync_items)
             \/ jobs[j].at = "selecting" /\ jobs'[j] # jobs[j])
              => db_lock = j]_vars
    /\ [][\A j \in Jobs :
            (jobs'[j] # jobs[j] /\ jobs[j].at \in {"read", "decided"})
              => db_lock # j /\ db_lock' # j]_vars

\* a job holds the lock for its upsert while another job, which has written
\* its artifact, waits for the lock
C28_Witness ==
    \E i, j \in Jobs :
      /\ i # j
      /\ db_lock = i
      /\ jobs[i].at = "writing"
      /\ jobs[j].at = "written"
      /\ rendered = {jobs[i].key, jobs[j].key}


\* ---------------------------------------------------------------- C29
\* C29: Barrier.  While the main thread fetches or builds the batch data no
\* task has started or been submitted; once it has left the pool, for the
\* deletions, the commit and the end of the run, every task has returned or
\* raised and no thread of the pool is running one; in a run that raised no
\* task is queued or running either.
C29_Barrier ==
    /\ main \in {"fetch", "prefetch"}
       => /\ \A i \in ItemIds : futures[i] \in {"none", "fetched"} /\ starts[i] = 0
          /\ IdleWorkers = PoolWorkers
    /\ main \in {"deletions", "commit", "done"}
       => /\ \A i \in ItemIds : futures[i] \in {"none", "returned", "raised"}
          /\ Running = {}
          /\ IdleWorkers = PoolWorkers
          /\ yielded = Fetching
    /\ main = "raised"
       => /\ Running = {}
          /\ Queued = {}
          /\ IdleWorkers = PoolWorkers

\* the deletions start after a pass over MaxItems items in which a task
\* raised and a task returned
C29_Witness ==
    /\ main = "deletions"
    /\ Cardinality(Fetching) = MaxItems
    /\ \E i, j \in ItemIds : futures[i] = "raised" /\ futures[j] = "returned"

\* ---------------------------------------------------------------- C30
\* the steps a run can still take, at most
Remaining ==
    IF main \in {"done", "raised"} THEN 0
    ELSE IF main = "fetch" THEN 6 + 4 * MaxItems
    ELSE (IF main = "prefetch" THEN 5
          ELSE IF main = "submit" THEN 4
          ELSE IF main = "collect" THEN 3
          ELSE IF main = "deletions" THEN 2
          ELSE 1)
         + 4 * Cardinality(Waiting) + 3 * Cardinality(Queued)
         + 2 * Cardinality(Running) + Cardinality(Finished \ yielded)

\* C30: Bounded pool, each item once.  At most 4 reconciliations are in
\* progress; no item is started twice, and once the main thread has left
\* the pool every fetched item was started exactly once and
\* total_items_processed is the number of fetched items; every run ends,
\* returning or raising, whatever tasks raise: a run that has not ended can
\* take a step, and every step lowers the number of steps that remain.
C30_BoundedPool ==
    /\ [](Cardinality(Running) <= 4)
    /\ [](\A i \in ItemIds : starts[i] <= 1)
    /\ [](main \in {"deletions", "commit", "done"}
            => /\ \A i \in ItemIds : starts[i] = IF i \in Fetching THEN 1 ELSE 0
               /\ pool_result.total_items_processed = Cardinality(Fetching)
               /\ Cardinality(Fetching) =
                    pool_result.items_created + pool_result.items_skipped
                      + Cardinality(pool_result.errors))
    /\ [](main \notin {"done", "raised"} => ENABLED NextPool)
    /\ [][Remaining' < Remaining]_vars

\* four reconciliations are in progress while a fifth item waits in the queue
C30_Witness ==
    /\ Cardinality(Running) = 4
    /\ Queued # {}
    /\ pool_result.total_items_processed = 4


\* ---------------------------------------------------------------- C31
\* the places in the raw attachment list of the attachments that have a
\* key, the parent P and a content type containing "pdf" in any case
PdfMatches(P) ==
    {i \in 1..Len(all_attachments) :
       /\ all_attachments[i].key # Missing
       /\ all_attachments[i].parentItem = P
       /\ contains_pdf(lower(all_attachments[i].contentType))}

\* C31: Primary attachment is the first match.  For every parent record the
\* primary attachment in Batch Data is the key of the first attachment of
\* the raw list that has that parent and a pdf content type, and a parent
\* with no such attachment has no entry.
C31_Original ==
    built =>
      \A P \in Keys :
         IF PdfMatches(P) = {}
         THEN P \notin DOMAIN attachment_keys
         ELSE /\ P \in DOMAIN attachment_keys
              /\ attachment_keys[P] = all_attachments[Min(PdfMatches(P))].key

\* ---------------------------------------------------------------- C32
\* the annotation belongs to an attachment that has a key and the parent P
AnnotationOf(P, annotation) ==
    \E i \in 1..Len(all_attachments) :
       /\ all_attachments[i].key # Missing
       /\ all_attachments[i].key = annotation.parent_key
       /\ all_attachments[i].parentItem = P

\* C32: Annotation index.  Batch Data maps a parent record P to exactly the
\* annotations whose attachment has a key and the declared parent P, in the
\* order of the raw annotation list; a parent with no such annotation has no
\* key in the map, and nothing but parent records are keys.
C32_AnnotationIndex ==
    built =>
      /\ DOMAIN annotations_by_item \subseteq Keys
      /\ \A P \in Keys :
           LET Belongs(annotation) == AnnotationOf(P, annotation)
               expected == SelectSeq(all_annotations, Belongs)
           IN IF expected = <<>>
              THEN P \notin DOMAIN annotations_by_item
              ELSE /\ P \in DOMAIN annotations_by_item
                   /\ annotations_by_item[P] = expected

\* two annotations of one parent were indexed in the order of the raw list
\* while the list of attachments holds an attachment without a parent
C32_Witness ==
    /\ built
    /\ \E P \in DOMAIN annotations_by_item :
         annotations_by_item[P] = all_annotations /\ Len(all_annotations) = 2
    /\ \E i \in 1..Len(all_attachments) :
         /\ all_attachments[i].parentItem = Missing
         /\ all_attachments[i].key # Missing


\* ---------------------------------------------------------------- C33
\* the artifact written for the row of the record in an earlier run
ExistingArtifact ==
    IF recon.existing_state.status = "none" THEN NoArtifact
    ELSE recon.artifacts[recon.existing_state.citation_key]

\* C33: Free text is preserved.  When a record that has a state row and an
\* existing artifact is rendered again, in a delta, a forced Full Sync or a
\* Full Re-render, the free text of that artifact is passed to the renderer
\* as the preserved notes and is the free text of the artifact written; for
\* a record without a state row no preserved text is passed.
C33_Original ==
    rendering.rendered =>
      /\ ExistingArtifact.exists
         => /\ rendering.preserved_notes = extract_notes_section(ExistingArtifact)
            /\ rendering.artifact.notes = ExistingArtifact.notes
      /\ recon.existing_state.status = "none"
         => rendering.preserved_notes = NoNotes


\* ---------------------------------------------------------------- C34
\* the record of k fetched by this Full Sync finds k's row marked removed
Reappears(k) ==
    /\ mode = "full"
    /\ items[k].present
    /\ HasCitationKey(items[k])
    /\ before.sync_items[k].status = "removed"

\* C34: Reactivation.  When a record whose row has status removed is in the
\* item set of a Full Sync, its reconciliation writes the row of that key
\* with status active, the incoming version and the incoming payload and
\* counts one more updated and no more created item; the row is active with
\* that version when the run has ended.
C34_Reactivation ==
    /\ [](\A k \in Keys :
            Reappears(k) /\ pc = "done"
            => /\ sync_items[k].status = "active"
               /\ sync_items[k].zotero_version = items[k].version
               /\ sync_items[k].item_json = items[k])
    /\ [][\A k \in Keys :
            Reappears(k) /\ pc = "items" /\ k \in pending /\ k \notin pending'
            => /\ sync_items[k].status = "removed"
               /\ sync_items'[k] = [status |-> "active",
                                    citation_key |-> items[k].ckey,
                                    zotero_version |-> items[k].version,
                                    item_json |-> items[k]]
               /\ result'.items_updated = result.items_updated + 1
               /\ result'.items_created = result.items_created]_vars

C34_Witness ==
    \E k \in Keys :
        /\ Reappears(k)
        /\ pc = "done"
        /\ sync_items[k].status = "active"
        /\ result.items_updated >= 1


\* ---------------------------------------------------------------- C35
\* C35: Stored version is monotonic.  The version stored in the row of a key
\* never decreases from one step of any run to the next, and while the
\* record is in the remote library it is never above the record's version.
C35_StoredVersionMonotonic ==
    /\ [](\A k \in Keys :
            sync_items[k].status # "none" /\ remote_items[k].present
            => sync_items[k].zotero_version <= remote_items[k].version)
    /\ [][\A k \in Keys :
            sync_items[k].status # "none"
            => /\ sync_items'[k].status # "none"
               /\ sync_items'[k].zotero_version >= sync_items[k].zotero_version]_vars

\* a run of each kind has ended, the delta having raised a stored version
C35_Witness ==
    \E k \in Keys :
        /\ pc = "done"
        /\ mode = "delta"
        /\ before.sync_items[k].status # "none"
        /\ before.sync_items[k].zotero_version < sync_items[k].zotero_version
        /\ sync_items[k].zotero_version = remote_items[k].version


\* ---------------------------------------------------------------- C36
\* a change of k's record that no run has reconciled and that no fetch by
\* the recorded library version would return
Lost(k) ==
    \/ /\ remote_items[k].present
       /\ HasCitationKey(remote_items[k])
       /\ ~(/\ sync_items[k].status = "active"
            /\ sync_items[k].zotero_version = remote_items[k].version)
       /\ ~get_items_since_version(last_library_version)[k].present
    \/ /\ ~remote_items[k].present
       /\ sync_items[k].status = "active"
       /\ k \notin get_deleted_items(last_library_version)

\* C36: No lost remote change.  A run reads the library version when it
\* begins, with nothing fetched yet, keeps that value to its end and records
\* no other; and with the library changing between and during the runs,
\* every record whose change is not reconciled has a version above the
\* recorded library version, so that the fetch of the next delta returns it.
C36_NoLostChange ==
    /\ [](\A k \in Keys : ~Lost(k))
    /\ [][/\ (~InRun /\ InRun')
             => /\ current_version' = library_version
                /\ \A k \in Keys : ~items'[k].present
          /\ (InRun /\ pc' # "idle")
             => current_version' = current_version
          /\ last_library_version' # last_library_version
             => /\ InRun
                /\ last_library_version' = current_version]_vars

\* a record changed after the run had fetched it; the run has recorded the
\* version it read before and the change is above it
C36_Witness ==
    \E k \in Keys :
        /\ pc = "done"
        /\ mode \in {"full", "delta"}
        /\ items[k].present
        /\ remote_items[k].present
        /\ items[k].version < remote_items[k].version
        /\ last_library_version = current_version
        /\ last_library_version < remote_items[k].version
        /\ get_items_since_version(last_library_version)[k].present


\* ---------------------------------------------------------------- C37
\* the row of k is behind k's record
Behind(k) ==
    /\ remote_items[k].present
    /\ HasCitationKey(remote_items[k])
    /\ ~(/\ sync_items[k].status = "active"
         /\ sync_items[k].zotero_version = remote_items[k].version)

\* C37: Eventual consistency after a per-item failure.  When a delta run in
\* which the reconciliation of k failed has ended and k's row is behind its
\* record, the Incremental Sync run that follows with the library unchanged
\* does not return without fetching anything; such a run leaves the store
\* and the artifacts as they are and so does every run after it, whereas the
\* claim has Incremental Sync runs bring the row to the version of the
\* record.
C37_Original ==
    [][\A k \in Keys :
         ~(/\ pc = "done"
           /\ mode = "delta"
           /\ k \in failed
           /\ Behind(k)
           /\ entry' = "incremental"
           /\ mode' = "noop"
           /\ remote' = remote
           /\ faults' = faults
           /\ Behind(k)')]_vars


\* ---------------------------------------------------------------- C38
\* items counted as created, updated, skipped or failed
Accounted(r) ==
    r.items_created + r.items_updated + r.items_skipped + Len(r.errors)

\* C38: Counter accounting.  When a run of any mode has ended, created +
\* updated + skipped + errors is at most total_items_processed, and the step
\* of one item of the pass adds at most one to that sum.
C38_Original ==
    /\ [](pc = "done" /\ mode \in {"full", "delta", "rerender"}
          => Accounted(result) <= result.total_items_processed)
    /\ [][pc = "items" /\ pc' = "items"
          => Accounted(result') <= Accounted(result) + 1]_vars


\* ---------------------------------------------------------------- C39
\* C39: Full Re-render frame.  No step of a Full Re-render changes the
\* recorded library version; of a row it changes at most the cached payload
\* (with the fingerprint and the timestamp, which the rows of the model do
\* not carry), never the citation key, the stored version or the status; a
\* row that is not active is left as it is.  When the run has ended the
\* same holds against the store as it was when the run began.
C39_RerenderFrame ==
    /\ [](pc = "done" /\ mode = "rerender"
          => /\ last_library_version = before.last_library_version
             /\ \A k \in Keys :
                  /\ sync_items[k].citation_key = before.sync_items[k].citation_key
                  /\ sync_items[k].zotero_version = before.sync_items[k].zotero_version
                  /\ sync_items[k].status = before.sync_items[k].status
                  /\ before.sync_items[k].status # "active"
                     => sync_items[k] = before.sync_items[k])
    /\ [][mode = "rerender" /\ mode' = "rerender"
          => /\ last_library_version' = last_library_version
             /\ \A k \in Keys :
                  /\ sync_items'[k].citation_key = sync_items[k].citation_key
                  /\ sync_items'[k].zotero_version = sync_items[k].zotero_version
                  /\ sync_items'[k].status = sync_items[k].status
                  /\ sync_items[k].status # "active"
                     => sync_items'[k] = sync_items[k]]_vars

\* a Full Re-render has written an artifact anew and recorded the template,
\* with the library version ahead of the recorded one
C39_Witness ==
    \E k \in Keys :
        /\ pc = "done"
        /\ mode = "rerender"
        /\ k \in rendered
        /\ files[sync_items[k].citation_key] # before.files[sync_items[k].citation_key]
        /\ template_version # before.template_version
        /\ current_version # last_library_version


\* ---------------------------------------------------------------- C40
\* the worker about to reconcile k, not forced, finds a row of k and reads
\* no artifact (none, or an empty one) by the record's citation key
MissingArtifact(k) ==
    /\ pc = "items"
    /\ k \in pending
    /\ ~force_rerender
    /\ HasCitationKey(items[k])
    /\ get_item_state(k).status # "none"
    /\ ~read_existing(items[k].ckey).exists

\* C40: Missing artifact.  In a reconciliation that is not forced, of a
\* record with a row whose artifact cannot be read, the annotation-change
\* signal is true exactly when the record has an annotation; with the
\* version unchanged and no annotation the step writes no artifact and no
\* row and counts nothing as created or updated, and with an annotation it
\* renders, writes the artifact and counts one more updated item.
C40_MissingArtifact ==
    /\ [](\A k \in Keys :
            MissingArtifact(k)
            => (annotations_changed(read_existing(items[k].ckey), batch_data[k])
                <=> batch_data[k].n > 0))
    /\ [][\A k \in Keys :
            MissingArtifact(k) /\ k \notin pending'
            => /\ (/\ ~item_version_changed(get_item_state(k), items[k])
                   /\ batch_data[k].n = 0)
                  => /\ files' = files
                     /\ sync_items' = sync_items
                     /\ rendered' = rendered
                     /\ result'.items_updated = result.items_updated
                     /\ result'.items_created = result.items_created
               /\ batch_data[k].n > 0
                  => /\ k \in rendered'
                     /\ files'[items[k].ckey].exists
                     /\ result'.items_updated = result.items_updated + 1
                     /\ result'.items_created = result.items_created]_vars

\* a record at its stored version with an annotation, its artifact missing,
\* has been rendered again
C40_Witness ==
    \E k \in Keys :
        /\ pc = "items"
        /\ pending = {}
        /\ ~force_rerender
        /\ result.total_items_processed = 1
        /\ before.sync_items[k].status = "active"
        /\ HasCitationKey(items[k])
        /\ ~before.files[items[k].ckey].exists
        /\ items[k].version = before.sync_items[k].zotero_version
        /\ batch_data[k].n > 0
        /\ files[items[k].ckey].exists
        /\ result.items_updated = 1
====
